---- MODULE Spec2Model ----
(***************************************************************************)
(* HB*-tree placement (jeannie068/test): the tree, its skyline contours,   *)
(* the packing pass, the contour-node regeneration, the five perturbations *)
(* and the incremental repack, as implemented in                           *)
(* src/data_struct/HBStarTree.cpp, HBStarTreeNode.cpp and                  *)
(* src/utils/Contour.cpp.  The ASF-B*-tree, Module and SymmetryGroup       *)
(* classes are not among the sources; they are modelled from their         *)
(* contract in the specification (section 4.2 and section 3).              *)
(***************************************************************************)
EXTENDS Integers, Sequences, FiniteSets, TLC

\* ------------------------------------------------------------------------
\* Bounds of the model
\* ------------------------------------------------------------------------
\* Number of calls (perturbations, pack, clone) made after construction.
MaxSteps == 4
\* Number of Contour-kind node objects that can be alive at the same time.
MaxContourNodes == 12
\* Largest x0 probed when a skyline is compared with the placed rectangles.
MaxProbe == 12

\* Largest coordinate given to a Contour object that is driven on its own.
MaxCoordinate == 3
\* Largest height given to a Contour object that is driven on its own.
MaxSegmentHeight == 1
\* largest width or height of a module whose sides are varied
MaxSide == 3
\* number of moveNode / swapNodes calls made on the tree of Module nodes
MaxMoves == 3
\* seconds of the steady clock that are followed after startWatchdog()
MaxElapsed == 291
\* calls made on the tree with two islands
MaxRegen == 1

\* std::numeric_limits<int>::max()
IntMax == 2147483647

\* seconds given to TimeoutManager by main()
timeoutSeconds == 290

Max(a, b) == IF a >= b THEN a ELSE b
Min(a, b) == IF a <= b THEN a ELSE b

\* ------------------------------------------------------------------------
\* Contour (skyline): src/utils/Contour.cpp
\* ------------------------------------------------------------------------
ContourSegment(start, end, height) == [start |-> start, end |-> end, height |-> height]

\* Contour::Contour() / Contour::clear()
EmptyContour == [segments |-> << >>, maxCoordinate |-> 0, maxHeight |-> 0]

\* std::sort by start (insertion of one element into a sorted prefix)
RECURSIVE InsertByStart(_, _)
InsertByStart(sorted, seg) ==
    IF sorted = << >> THEN << seg >>
    ELSE IF seg.start < Head(sorted).start THEN << seg >> \o sorted
    ELSE << Head(sorted) >> \o InsertByStart(Tail(sorted), seg)

RECURSIVE SortByStart(_)
SortByStart(segs) ==
    IF segs = << >> THEN << >>
    ELSE InsertByStart(SortByStart(Tail(segs)), Head(segs))

\* Contour::mergeSegments: fuse neighbours that touch and have equal height
RECURSIVE MergeLoop(_, _, _)
MergeLoop(segs, i, merged) ==
    IF i > Len(segs) THEN merged
    ELSE LET last == merged[Len(merged)]
             current == segs[i]
         IN IF last.end = current.start /\ last.height = current.height
            THEN MergeLoop(segs, i + 1,
                           [merged EXCEPT ![Len(merged)].end = current.end])
            ELSE MergeLoop(segs, i + 1, Append(merged, current))

\* the segment list left as the sort gave it, nothing fused
mergeSegmentsSkipped(segs) == segs

mergeSegments(segs) ==
    IF Len(segs) <= 1 THEN segs
    ELSE MergeLoop(segs, 2, << segs[1] >>)

\* The loop of Contour::addSegment over the existing segments.
\* acc = [new |-> newSegments, inserted |-> inserted]
RECURSIVE AddLoop(_, _, _, _, _, _)
\* the loop storing the higher of the new and the overlapped height
AddLoopKeepsHigher(segs, i, start, end, height, acc) ==
    IF i > Len(segs) THEN acc
    ELSE LET segment == segs[i] IN
         IF segment.end <= start
         THEN AddLoop(segs, i + 1, start, end, height,
                      [acc EXCEPT !.new = Append(@, segment)])
         ELSE IF segment.start >= end
         THEN AddLoop(segs, i + 1, start, end, height,
                      [new |-> (IF acc.inserted THEN acc.new
                                ELSE Append(acc.new, ContourSegment(start, end, height)))
                               \o << segment >>,
                       inserted |-> TRUE])
         ELSE LET n1 == IF segment.start < start
                        THEN Append(acc.new, ContourSegment(segment.start, start, segment.height))
                        ELSE acc.new
                  n2 == IF acc.inserted THEN n1
                        ELSE Append(n1, ContourSegment(start, end, Max(height, segment.height)))
                  n3 == IF segment.end > end
                        THEN Append(n2, ContourSegment(end, segment.end, segment.height))
                        ELSE n2
              IN AddLoop(segs, i + 1, start, end, height,
                         [new |-> n3, inserted |-> TRUE])

\* the loop without the part of a segment that lies after the new one
AddLoopDropsTail(segs, i, start, end, height, acc) ==
    IF i > Len(segs) THEN acc
    ELSE LET segment == segs[i] IN
         IF segment.end <= start
         THEN AddLoop(segs, i + 1, start, end, height,
                      [acc EXCEPT !.new = Append(@, segment)])
         ELSE IF segment.start >= end
         THEN AddLoop(segs, i + 1, start, end, height,
                      [new |-> (IF acc.inserted THEN acc.new
                                ELSE Append(acc.new, ContourSegment(start, end, height)))
                               \o << segment >>,
                       inserted |-> TRUE])
         ELSE LET n1 == IF segment.start < start
                        THEN Append(acc.new, ContourSegment(segment.start, start, segment.height))
                        ELSE acc.new
                  n2 == IF acc.inserted THEN n1
                        ELSE Append(n1, ContourSegment(start, end, height))
                  n3 == n2
              IN AddLoop(segs, i + 1, start, end, height,
                         [new |-> n3, inserted |-> TRUE])

AddLoop(segs, i, start, end, height, acc) ==
    IF i > Len(segs) THEN acc
    ELSE LET segment == segs[i] IN
         IF segment.end <= start
         THEN AddLoop(segs, i + 1, start, end, height,
                      [acc EXCEPT !.new = Append(@, segment)])
         ELSE IF segment.start >= end
         THEN AddLoop(segs, i + 1, start, end, height,
                      [new |-> (IF acc.inserted THEN acc.new
                                ELSE Append(acc.new, ContourSegment(start, end, height)))
                               \o << segment >>,
                       inserted |-> TRUE])
         ELSE LET n1 == IF segment.start < start
                        THEN Append(acc.new, ContourSegment(segment.start, start, segment.height))
                        ELSE acc.new
                  n2 == IF acc.inserted THEN n1
                        ELSE Append(n1, ContourSegment(start, end, height))
                  n3 == IF segment.end > end
                        THEN Append(n2, ContourSegment(end, segment.end, segment.height))
                        ELSE n2
              IN AddLoop(segs, i + 1, start, end, height,
                         [new |-> n3, inserted |-> TRUE])

\* Contour::addSegment, after the test of start >= end
InsertSegment(c, start, end, height) ==
    LET mc == Max(c.maxCoordinate, end)
        mh == Max(c.maxHeight, height)
    IN IF c.segments = << >>
       THEN [segments |-> << ContourSegment(start, end, height) >>,
             maxCoordinate |-> mc, maxHeight |-> mh]
       ELSE LET r == AddLoop(c.segments, 1, start, end, height,
                             [new |-> << >>, inserted |-> FALSE])
                newSegments == IF r.inserted THEN r.new
                               ELSE Append(r.new, ContourSegment(start, end, height))
            IN [segments |-> mergeSegments(SortByStart(newSegments)),
                maxCoordinate |-> mc, maxHeight |-> mh]

\* the insertion without the test of start >= end
addSegmentUntested(c, start, end, height) == InsertSegment(c, start, end, height)

\* Contour::addSegment
addSegment(c, start, end, height) ==
    IF start >= end THEN c
    ELSE InsertSegment(c, start, end, height)

\* std::lower_bound on start: index of the first segment with start >= v,
\* Len+1 when there is none
RECURSIVE LowerBound(_, _, _)
LowerBound(segs, i, v) ==
    IF i > Len(segs) THEN i
    ELSE IF segs[i].start >= v THEN i
    ELSE LowerBound(segs, i + 1, v)

\* the scan of Contour::getHeight from position it
RECURSIVE HeightScan(_, _, _, _)
HeightScan(segs, it, end, mh) ==
    IF it > Len(segs) THEN mh
    ELSE IF ~(segs[it].start < end) THEN mh
    ELSE HeightScan(segs, it + 1, end, Max(mh, segs[it].height))

\* the query that starts at the lower bound without looking at the segment
\* before it
getHeightFromLowerBound(c, start, end) ==
    IF start >= end THEN 0
    ELSE IF c.segments = << >> THEN 0
    ELSE HeightScan(c.segments, LowerBound(c.segments, 1, start), end, 0)

\* Contour::getHeight
getHeight(c, start, end) ==
    IF start >= end THEN 0
    ELSE IF c.segments = << >> THEN 0
    ELSE LET segs == c.segments
             lb == LowerBound(segs, 1, start)
             it == IF lb # 1 /\ (lb = Len(segs) + 1 \/ segs[lb].start > start)
                   THEN (IF segs[lb - 1].end <= start THEN lb ELSE lb - 1)
                   ELSE lb
         IN HeightScan(segs, it, end, 0)

\* std::sort and std::unique of the break points
RECURSIVE SortedPoints(_)
SortedPoints(S) ==
    IF S = {} THEN << >>
    ELSE LET lo == CHOOSE v \in S : \A u \in S : v <= u
         IN << lo >> \o SortedPoints(S \ {lo})

\* the start and end of every segment of both contours
Breakpoints(c, other) ==
    SortedPoints({c.segments[i].start : i \in 1..Len(c.segments)}
                 \cup {c.segments[i].end : i \in 1..Len(c.segments)}
                 \cup {other.segments[i].start : i \in 1..Len(other.segments)}
                 \cup {other.segments[i].end : i \in 1..Len(other.segments)})

\* the segments Contour::merge makes, one per interval between break points
MergedSegments(c, other, breakpoints) ==
    [i \in 1..(Len(breakpoints) - 1) |->
        ContourSegment(breakpoints[i], breakpoints[i + 1],
                       Max(getHeight(c, breakpoints[i], breakpoints[i + 1]),
                           getHeight(other, breakpoints[i], breakpoints[i + 1])))]

\* Contour::merge with the break points computed
MergeAt(c, other, breakpoints) ==
    IF breakpoints = << >>
    THEN [raised |-> TRUE, contour |-> c]
    ELSE [raised |-> FALSE,
          contour |-> [segments |-> mergeSegments(MergedSegments(c, other, breakpoints)),
                       maxCoordinate |-> Max(c.maxCoordinate, other.maxCoordinate),
                       maxHeight |-> Max(c.maxHeight, other.maxHeight)]]

\* Contour::merge: returns the contour and whether the call raised.  Without
\* break points, reserve(breakpoints.size() - 1) asks for SIZE_MAX elements and
\* throws std::length_error before anything is changed.
merge(c, other) == MergeAt(c, other, Breakpoints(c, other))

\* ------------------------------------------------------------------------
\* The design handed to the tree by addModule / addSymmetryGroup
\* ------------------------------------------------------------------------
Nil == "nil"

\* Module: name, width, height, position (specification section 3)
Module(w, h) == [x |-> 0, y |-> 0, w |-> w, h |-> h]

\* the modules map (std::map, keyed by name) as filled by addModule
InitModules ==
    [n \in {"a", "b", "s", "m1", "m2"} |->
        CASE n = "a"  -> Module(2, 1)
          [] n = "b"  -> Module(2, 1)
          [] n = "s"  -> Module(2, 2)
          [] n = "m1" -> Module(3, 1)
          [] n = "m2" -> Module(1, 2)]

ModuleNames == DOMAIN InitModules

\* SymmetryGroup: name, pairs, selfSymmetric, axis (specification section 3)
SymmetryGroup(name, pairs, selfs, axis) ==
    [name |-> name, pairs |-> pairs, selfSymmetric |-> selfs, axis |-> axis]

\* the groups of the designs: g1 is the group of the design the parser hands
\* over in Init; g2 and g3 are the two groups of the design with two islands
symmetryGroups ==
    << SymmetryGroup("g1", << << "a", "b" >> >>, << "s" >>, "V"),
       SymmetryGroup("g2", << >>, << "a" >>, "V"),
       SymmetryGroup("g3", << >>, << "b" >>, "V") >>

GroupIdx == 1..Len(symmetryGroups)
GroupNames == {symmetryGroups[i].name : i \in GroupIdx}
GroupOf(name) == CHOOSE i \in GroupIdx : symmetryGroups[i].name = name

SeqRange(s) == {s[i] : i \in 1..Len(s)}
PairMembers(g) == UNION {{g.pairs[i][1], g.pairs[i][2]} : i \in 1..Len(g.pairs)}
GroupMembers(g) == PairMembers(g) \cup SeqRange(g.selfSymmetric)

\* a name no module, node or group is registered under
Unknown == "zz"

\* std::map iterates its keys in lexicographic order
NameOrder == << "a", "b", "g1", "g2", "g3", "m1", "m2", "s", "zz" >>
NameRank(n) == CHOOSE i \in 1..Len(NameOrder) : NameOrder[i] = n

RECURSIVE KeysInOrder(_, _)
KeysInOrder(keys, i) ==
    IF i > Len(NameOrder) THEN << >>
    ELSE (IF NameOrder[i] \in keys THEN << NameOrder[i] >> ELSE << >>)
         \o KeysInOrder(keys, i + 1)

\* ------------------------------------------------------------------------
\* Nodes: src/data_struct/HBStarTreeNode.hpp
\* ------------------------------------------------------------------------
\* Contour-kind node objects are allocated from a pool; the C++ heap frees a
\* node when the last shared_ptr to it goes away.
ContourPool == << "c01", "c02", "c03", "c04", "c05", "c06", "c07", "c08",
                 "c09", "c10", "c11", "c12", "c13", "c14", "c15", "c16" >>
ContourIds == {ContourPool[i] : i \in 1..MaxContourNodes}

\* nodes of kind MODULE are created for the modules outside every group
nonSymmetryModules ==
    {n \in ModuleNames : \A i \in GroupIdx : n \notin GroupMembers(symmetryGroups[i])}

NamedNodes == nonSymmetryModules \cup GroupNames
Nodes == NamedNodes \cup ModuleNames \cup ContourIds

\* HBStarTreeNode::getType
getType(n) ==
    IF n \in GroupNames THEN "HIERARCHY"
    ELSE IF n \in ContourIds THEN "CONTOUR"
    ELSE "MODULE"

\* ------------------------------------------------------------------------
\* ASF-B*-tree of one symmetry group (contract of specification section 4.2)
\* ------------------------------------------------------------------------
\* State of one ASF-B*-tree: the axis orientation, which member of each pair
\* is the representative (1 or 2), the axis position and the island's
\* horizontal skyline of the last pack.
ASFBStarTree(g) ==
    [axis |-> g.axis,
     rep |-> [i \in 1..Len(g.pairs) |-> 1],
     symmetryAxisPosition |-> 0,
     horizontal |-> EmptyContour]

\* the representatives in tree order: one per pair, then the self-symmetric
ASFItems(g, a) ==
    [i \in 1..(Len(g.pairs) + Len(g.selfSymmetric)) |->
        IF i <= Len(g.pairs)
        THEN [rep |-> g.pairs[i][a.rep[i]], mate |-> g.pairs[i][3 - a.rep[i]]]
        ELSE [rep |-> g.selfSymmetric[i - Len(g.pairs)],
              mate |-> g.selfSymmetric[i - Len(g.pairs)]]]

RECURSIVE ASFAxis(_, _, _, _)
ASFAxis(items, i, vertical, mods) ==
    IF i > Len(items) THEN 0
    ELSE LET m == mods[items[i].rep]
             ext == IF vertical THEN m.w ELSE m.h
             half == IF items[i].rep = items[i].mate THEN (ext + 1) \div 2 ELSE ext
         IN Max(half, ASFAxis(items, i + 1, vertical, mods))

\* places item i and the following ones; off is the free coordinate along the
\* axis, A the axis position; returns the modules and the island skyline
RECURSIVE ASFPlace(_, _, _, _, _, _)
ASFPlace(items, i, vertical, A, off, acc) ==
    IF i > Len(items) THEN acc
    ELSE LET r == items[i].rep
             t == items[i].mate
             mr == acc.mods[r]
             mt == acc.mods[t]
             self == (r = t)
             rx == IF vertical THEN (IF self THEN A - (mr.w \div 2) ELSE A) ELSE off
             ry == IF vertical THEN off ELSE (IF self THEN A - (mr.h \div 2) ELSE A)
             tx == IF vertical THEN A - mt.w ELSE off
             ty == IF vertical THEN off ELSE A - mt.h
             m1 == IF self THEN acc.mods
                   ELSE [acc.mods EXCEPT ![t].x = tx, ![t].y = ty]
             m2 == [m1 EXCEPT ![r].x = rx, ![r].y = ry]
             c1 == IF self THEN acc.horizontal
                   ELSE addSegment(acc.horizontal, tx, tx + mt.w, ty + mt.h)
             c2 == addSegment(c1, rx, rx + mr.w, ry + mr.h)
             step == IF vertical THEN Max(mr.h, mt.h) ELSE Max(mr.w, mt.w)
         IN ASFPlace(items, i + 1, vertical, A, off + step,
                     [mods |-> m2, horizontal |-> c2])

\* ASFBStarTree::pack: returns [mods, asf]
ASFPack(g, a, mods) ==
    LET items == ASFItems(g, a)
        vertical == (a.axis = "V")
        A == ASFAxis(items, 1, vertical, mods)
        r == ASFPlace(items, 1, vertical, A, 0,
                      [mods |-> mods, horizontal |-> EmptyContour])
    IN [mods |-> r.mods,
        asf |-> [a EXCEPT !.symmetryAxisPosition = A, !.horizontal = r.horizontal]]

\* Module::rotate
ModuleRotate(m) == [m EXCEPT !.w = m.h, !.h = m.w]

\* ASFBStarTree::rotateModule: returns [ok, mods]
ASFRotateModule(g, mods, name) ==
    IF \E i \in 1..Len(g.pairs) : name \in {g.pairs[i][1], g.pairs[i][2]}
    THEN LET i == CHOOSE j \in 1..Len(g.pairs) : name \in {g.pairs[j][1], g.pairs[j][2]}
         IN [ok |-> TRUE,
             mods |-> [mods EXCEPT ![g.pairs[i][1]] = ModuleRotate(@),
                                   ![g.pairs[i][2]] = ModuleRotate(@)]]
    ELSE IF name \in SeqRange(g.selfSymmetric)
    THEN [ok |-> TRUE, mods |-> [mods EXCEPT ![name] = ModuleRotate(@)]]
    ELSE [ok |-> FALSE, mods |-> mods]

\* ASFBStarTree::changeRepresentative: returns [ok, asf]
ASFChangeRepresentative(g, a, name) ==
    IF \E i \in 1..Len(g.pairs) : name \in {g.pairs[i][1], g.pairs[i][2]}
    THEN LET i == CHOOSE j \in 1..Len(g.pairs) : name \in {g.pairs[j][1], g.pairs[j][2]}
         IN [ok |-> TRUE, asf |-> [a EXCEPT !.rep[i] = 3 - @]]
    ELSE [ok |-> FALSE, asf |-> a]

\* ASFBStarTree::convertSymmetryType: returns [ok, asf]
ASFConvertSymmetryType(a) ==
    [ok |-> TRUE, asf |-> [a EXCEPT !.axis = IF @ = "V" THEN "H" ELSE "V"]]

\* ------------------------------------------------------------------------
\* HBStarTree: src/data_struct/HBStarTree.cpp
\* ------------------------------------------------------------------------
\* A tree object is a record of its members.  left/right/parent are the link
\* fields of the node objects, contour the payload of the Contour-kind nodes,
\* live the Contour-kind objects that currently exist, asfTree the ASF-B*-tree
\* owned by each Hierarchy node.

\* an empty name -> node map
EmptyMap == [n \in {} |-> Nil]

\* hung records that the executing call is stuck in a loop that never ends.
\* HBStarTree::HBStarTree() followed by addModule / addSymmetryGroup
NewTree(mods) ==
    [modules |-> mods,
     groups |-> << symmetryGroups[1].name >>,
     asfTree |-> [g \in GroupNames |-> ASFBStarTree(symmetryGroups[GroupOf(g)])],
     root |-> Nil,
     left |-> [n \in Nodes |-> Nil],
     right |-> [n \in Nodes |-> Nil],
     parent |-> [n \in Nodes |-> Nil],
     contour |-> [c \in ContourIds |-> [x1 |-> 0, y1 |-> 0, x2 |-> 0, y2 |-> 0]],
     live |-> {},
     horizontalContour |-> EmptyContour,
     verticalContour |-> EmptyContour,
     nodeMap |-> EmptyMap,
     moduleNodes |-> EmptyMap,
     symmetryGroupNodes |-> EmptyMap,
     modifiedSubtrees |-> {},
     totalArea |-> 0,
     isPacked |-> FALSE,
     hung |-> FALSE]

\* nodes reachable from n through child links (n included)
RECURSIVE ReachFrom(_, _, _)
ReachFrom(T, frontier, seen) ==
    IF frontier = {} THEN seen
    ELSE LET next == ({T.left[n] : n \in frontier} \cup {T.right[n] : n \in frontier})
                     \ (seen \cup {Nil})
         IN ReachFrom(T, next, seen \cup next)

Subtree(T, n) == IF n = Nil THEN {} ELSE ReachFrom(T, {n}, {n})
InTree(T) == Subtree(T, T.root)

\* HBStarTree::clearTree
clearTree(T) ==
    [T EXCEPT !.root = Nil, !.moduleNodes = EmptyMap, !.symmetryGroupNodes = EmptyMap,
              !.isPacked = FALSE]

\* HBStarTree::constructSymmetryIslands: one Hierarchy node with a new
\* ASF-B*-tree per group of the symmetryGroups vector
constructSymmetryIslands(T) ==
    [T EXCEPT !.asfTree = [g \in GroupNames |->
                              IF g \in SeqRange(T.groups)
                              THEN ASFBStarTree(symmetryGroups[GroupOf(g)])
                              ELSE T.asfTree[g]],
              !.symmetryGroupNodes = [g \in SeqRange(T.groups) |-> g]]

\* the nonSymmetryModules vector of constructInitialTreeStructure: the modules
\* no group of the tree has in a pair or as self-symmetric.  The vector is
\* sorted by area, and its only use is to fill the moduleNodes map.
FreeModules(T) ==
    {n \in DOMAIN T.modules :
        \A g \in SeqRange(T.groups) : n \notin GroupMembers(symmetryGroups[GroupOf(g)])}

\* HBStarTree::constructInitialTreeStructure: the nodes are chained in the
\* iteration order of the symmetryGroupNodes and moduleNodes maps
constructInitialTreeStructure(T) ==
    LET moduleNodes == [n \in FreeModules(T) |-> n]
        chain == KeysInOrder(DOMAIN T.symmetryGroupNodes, 1)
                 \o KeysInOrder(DOMAIN moduleNodes, 1)
        pos(n) == CHOOSE i \in 1..Len(chain) : chain[i] = n
    IN [T EXCEPT
          !.moduleNodes = moduleNodes,
          !.root = IF chain = << >> THEN Nil ELSE chain[1],
          !.left = [n \in Nodes |->
                      IF n \in SeqRange(chain) /\ pos(n) < Len(chain)
                      THEN chain[pos(n) + 1] ELSE T.left[n]],
          !.parent = [n \in Nodes |->
                      IF n \in SeqRange(chain) /\ pos(n) > 1
                      THEN chain[pos(n) - 1] ELSE T.parent[n]]]

\* HBStarTree::registerNodeInMap
registerNodeInMap(T, node) ==
    [T EXCEPT !.nodeMap = [n \in (DOMAIN T.nodeMap) \cup Subtree(T, node) |->
                              IF n \in Subtree(T, node) THEN n ELSE T.nodeMap[n]]]

\* HBStarTree::constructInitialTree
constructInitialTree(T) ==
    LET T3 == constructInitialTreeStructure(constructSymmetryIslands(clearTree(T)))
    IN IF T3.root # Nil THEN registerNodeInMap(T3, T3.root) ELSE T3

\* HBStarTree::findNode
findNode(T, name) == IF name \in DOMAIN T.nodeMap THEN T.nodeMap[name] ELSE Nil

\* HBStarTreeNode::isLeftChild
isLeftChild(T, n) == T.parent[n] # Nil /\ T.left[T.parent[n]] = n

\* x taken from the parent's origin for a left child as well
PackXAtParent(T, node) ==
    IF T.parent[node] = Nil THEN 0
    ELSE IF getType(T.parent[node]) = "MODULE" THEN T.modules[T.parent[node]].x
    ELSE 0

\* the B*-tree rule for x in HBStarTree::packSubtree (both node kinds)
PackX(T, node) ==
    LET p == T.parent[node] IN
    IF p = Nil THEN 0
    ELSE IF isLeftChild(T, node)
    THEN CASE getType(p) = "MODULE" -> T.modules[p].x + T.modules[p].w
           [] getType(p) = "HIERARCHY" -> T.asfTree[p].symmetryAxisPosition
           [] getType(p) = "CONTOUR" -> T.contour[p].x2
    ELSE CASE getType(p) = "MODULE" -> T.modules[p].x
           [] getType(p) = "HIERARCHY" -> 0
           [] getType(p) = "CONTOUR" -> T.contour[p].x1

SetMax(S) == CHOOSE v \in S : \A u \in S : u <= v
SetMin(S) == CHOOSE v \in S : \A u \in S : v <= u

\* HBStarTree::packSubtree, case MODULE: setPosition and the contour update
PlaceModule(T, node, x, y) ==
    [T EXCEPT
       !.modules[node].x = x,
       !.modules[node].y = y,
       !.horizontalContour = addSegment(@, x, x + T.modules[node].w, y + T.modules[node].h),
       !.verticalContour = addSegment(@, y, y + T.modules[node].h, x + T.modules[node].w)]

\* HBStarTree::packSubtree, case MODULE: y from the horizontal contour
LocateModule(T, node, x) ==
    PlaceModule(T, node, x, getHeight(T.horizontalContour, x, x + T.modules[node].w))

\* HBStarTree::packSubtree, case MODULE
PackModuleNode(T, node) == LocateModule(T, node, PackX(T, node))

\* the island shift with its operands exchanged
IslandDeltaSlip(at, lo) == lo - at

\* the island shift of HBStarTree::packSubtree, case HIERARCHY
IslandDelta(at, lo) == at - lo

\* HBStarTree::packSubtree, case HIERARCHY: the shift of the island's modules
\* by (deltaX, deltaY) and the update of the two contours with the island's
\* bounding rectangle of width bw and height bh placed at (x, y)
PlaceIsland(T, members, x, y, bw, bh, deltaX, deltaY) ==
    [T EXCEPT
       !.modules = [n \in ModuleNames |->
                       IF n \in members
                       THEN [T.modules[n] EXCEPT !.x = @ + deltaX, !.y = @ + deltaY]
                       ELSE T.modules[n]],
       !.horizontalContour = addSegment(@, x, x + bw, y + bh),
       !.verticalContour = addSegment(@, y, y + bh, x + bw)]

\* HBStarTree::packSubtree, case HIERARCHY: y from the horizontal contour
ShiftIsland(T, members, x, minX, minY, symMaxX, symMaxY, y) ==
    PlaceIsland(T, members, x, y, symMaxX - minX, symMaxY - minY,
                IslandDelta(x, minX), IslandDelta(y, minY))

\* HBStarTree::packSubtree, case HIERARCHY: x by the B*-tree rule
LocateIsland(T, node, members, minX, minY, symMaxX, symMaxY, x) ==
    ShiftIsland(T, members, x, minX, minY, symMaxX, symMaxY,
                getHeight(T.horizontalContour, x, x + (symMaxX - minX)))

\* HBStarTree::packSubtree, case HIERARCHY: the bounding rectangle of the
\* island as asfTree->pack() left it
BoundIsland(T, node, members) ==
    LocateIsland(T, node, members,
                 SetMin({IntMax} \cup {T.modules[n].x : n \in members}),
                 SetMin({IntMax} \cup {T.modules[n].y : n \in members}),
                 SetMax({0} \cup {T.modules[n].x + T.modules[n].w : n \in members}),
                 SetMax({0} \cup {T.modules[n].y + T.modules[n].h : n \in members}),
                 PackX(T, node))

\* the tree after asfTree->pack() with result r
IslandPacked(T, node, r) == [T EXCEPT !.modules = r.mods, !.asfTree[node] = r.asf]

\* HBStarTree::packSubtree, case HIERARCHY
PackHierarchyNode(T, node) ==
    BoundIsland(IslandPacked(T, node, ASFPack(symmetryGroups[GroupOf(node)],
                                              T.asfTree[node], T.modules)),
                node, GroupMembers(symmetryGroups[GroupOf(node)]))

\* HBStarTree::packSubtree, the switch on the node's type
PackNode(T, node) ==
    CASE getType(node) = "MODULE" -> PackModuleNode(T, node)
      [] getType(node) = "HIERARCHY" -> PackHierarchyNode(T, node)
      [] getType(node) = "CONTOUR" -> T

\* HBStarTree::packSubtree
RECURSIVE packSubtree(_, _)

\* HBStarTree::packSubtree, the recursion into the right child
PackRightChild(T, node) == packSubtree(T, T.right[node])

\* HBStarTree::packSubtree, the recursion into the left child
PackLeftChild(T, node) == PackRightChild(packSubtree(T, T.left[node]), node)

packSubtree(T, node) ==
    IF node = Nil THEN T
    ELSE PackLeftChild(PackNode(T, node), node)

Children(T, n) ==
    (IF T.left[n] # Nil THEN << T.left[n] >> ELSE << >>)
    \o (IF T.right[n] # Nil THEN << T.right[n] >> ELSE << >>)

\* HBStarTree::findNearestContourNode: breadth-first from the root, the first
\* Contour-kind node met (the argument is only tested for null)
RECURSIVE NearestLoop(_, _, _)
NearestLoop(T, queue, seen) ==
    IF queue = << >> THEN Nil
    ELSE LET current == Head(queue) IN
         IF getType(current) = "CONTOUR" THEN current
         ELSE IF current \in seen THEN NearestLoop(T, Tail(queue), seen)
         ELSE NearestLoop(T, Tail(queue) \o Children(T, current), seen \cup {current})

findNearestContourNode(T, node) ==
    IF node = Nil \/ T.root = Nil THEN Nil
    ELSE NearestLoop(T, << T.root >>, {})

\* HBStarTree::findLeftmostSkewedChild
RECURSIVE findLeftmostSkewedChild(_, _)
findLeftmostSkewedChild(T, node) ==
    IF T.left[node] = Nil THEN node
    ELSE findLeftmostSkewedChild(T, T.left[node])

\* the first loop of updateContourNodes: the Contour-kind nodes found
\* breadth-first from the hierarchy node's right child, through Contour-kind
\* nodes only
RECURSIVE ExistingContourNodes(_, _, _)
ExistingContourNodes(T, queue, acc) ==
    IF queue = << >> THEN acc
    ELSE LET current == Head(queue) IN
         IF getType(current) = "CONTOUR" /\ current \notin SeqRange(acc)
         THEN ExistingContourNodes(T, Tail(queue) \o Children(T, current),
                                   Append(acc, current))
         ELSE ExistingContourNodes(T, Tail(queue), acc)

\* make_shared<HBStarTreeNode>(CONTOUR, ...): k objects not alive yet
RECURSIVE FreshNodes(_, _, _)
FreshNodes(live, k, i) ==
    IF k = 0 \/ i > Len(ContourPool) THEN << >>
    ELSE IF ContourPool[i] \in ContourIds /\ ContourPool[i] \notin live
    THEN << ContourPool[i] >> \o FreshNodes(live, k - 1, i + 1)
    ELSE FreshNodes(live, k, i + 1)

\* the last loop of updateContourNodes: re-attach the dangling nodes
RECURSIVE ReassignDangling(_, _, _)
ReassignDangling(T, dangling, i) ==
    IF i > Len(dangling) THEN T
    ELSE LET d == dangling[i]
             nearest == findNearestContourNode(T, d)
         IN IF nearest = Nil THEN ReassignDangling(T, dangling, i + 1)
            ELSE IF T.right[nearest] = Nil
            THEN ReassignDangling([T EXCEPT !.right[nearest] = d, !.parent[d] = nearest],
                                  dangling, i + 1)
            ELSE LET lm == findLeftmostSkewedChild(T, T.right[nearest])
                 IN ReassignDangling([T EXCEPT !.left[lm] = d, !.parent[d] = lm],
                                     dangling, i + 1)

\* one iteration of the loop of updateContourNodes, for hierarchy node h
UpdateContourNodesOf(T, h) ==
    LET segments == T.asfTree[h].horizontal.segments
        existing == IF T.right[h] # Nil
                    THEN ExistingContourNodes(T, << T.right[h] >>, << >>)
                    ELSE << >>
        new == FreshNodes(T.live, Len(segments), 1)
        idx(c) == CHOOSE i \in 1..Len(new) : new[i] = c
        T1 == IF new = << >> THEN T
              ELSE [T EXCEPT
                      !.live = @ \cup SeqRange(new),
                      !.contour = [c \in ContourIds |->
                                     IF c \in SeqRange(new)
                                     THEN [x1 |-> segments[idx(c)].start,
                                           y1 |-> segments[idx(c)].height,
                                           x2 |-> segments[idx(c)].end,
                                           y2 |-> segments[idx(c)].height]
                                     ELSE T.contour[c]],
                      !.right = [n \in Nodes |->
                                     IF n = h THEN new[1]
                                     ELSE IF n \in SeqRange(new) THEN Nil
                                     ELSE T.right[n]],
                      !.left = [n \in Nodes |->
                                     IF n \in SeqRange(new)
                                     THEN (IF idx(n) < Len(new) THEN new[idx(n) + 1] ELSE Nil)
                                     ELSE T.left[n]],
                      !.parent = [n \in Nodes |->
                                     IF n \in SeqRange(new)
                                     THEN (IF idx(n) = 1 THEN h ELSE new[idx(n) - 1])
                                     ELSE T.parent[n]]]
        danglingNodes == SelectSeq([i \in 1..Len(existing) |-> T.right[existing[i]]],
                                   LAMBDA d : d # Nil)
    IN ReassignDangling(T1, danglingNodes, 1)

\* Node objects are freed when the last shared_ptr to them is gone: the named
\* nodes are held by the maps, every other node by its parent's child link or
\* by modifiedSubtrees.  A weak parent pointer to a freed node reads as null.
ReleaseNodes(T) ==
    LET held == {T.nodeMap[k] : k \in DOMAIN T.nodeMap}
                \cup {T.moduleNodes[k] : k \in DOMAIN T.moduleNodes}
                \cup {T.symmetryGroupNodes[k] : k \in DOMAIN T.symmetryGroupNodes}
                \cup T.modifiedSubtrees
        alive == ReachFrom(T, held, held)
        dead == ContourIds \ alive
    IN [T EXCEPT
          !.live = alive \cap ContourIds,
          !.left = [n \in Nodes |-> IF n \in dead THEN Nil ELSE T.left[n]],
          !.right = [n \in Nodes |-> IF n \in dead THEN Nil ELSE T.right[n]],
          !.parent = [n \in Nodes |->
                        IF n \in dead \/ T.parent[n] \in dead THEN Nil ELSE T.parent[n]],
          !.contour = [c \in ContourIds |->
                        IF c \in dead THEN [x1 |-> 0, y1 |-> 0, x2 |-> 0, y2 |-> 0]
                        ELSE T.contour[c]]]

RECURSIVE UpdateContourLoop(_, _, _)
UpdateContourLoop(T, hs, i) ==
    IF i > Len(hs) THEN T
    ELSE UpdateContourLoop(ReleaseNodes(UpdateContourNodesOf(T, T.symmetryGroupNodes[hs[i]])),
                           hs, i + 1)

\* HBStarTree::updateContourNodes
updateContourNodes(T) ==
    UpdateContourLoop(T, KeysInOrder(DOMAIN T.symmetryGroupNodes, 1), 1)

\* the walk up the parent pointers; hang when it comes back to a node it has
\* already visited (the C++ loop then never ends)
RECURSIVE ParentWalk(_, _, _)
ParentWalk(T, current, visited) ==
    IF current = Nil THEN [hang |-> FALSE, nodes |-> visited]
    ELSE IF current \in visited THEN [hang |-> TRUE, nodes |-> visited]
    ELSE ParentWalk(T, T.parent[current], visited \cup {current})

\* HBStarTree::markSubtreeForRepack
markSubtreeForRepack(T, node) ==
    IF node = Nil \/ T.hung THEN T
    ELSE LET r == ParentWalk(T, node, {})
         IN IF r.hang THEN [T EXCEPT !.hung = TRUE]
            ELSE [T EXCEPT !.modifiedSubtrees = @ \cup r.nodes]

\* proper ancestors of n by parent pointers
Ancestors(T, n) == ParentWalk(T, T.parent[n], {}).nodes
Depth(T, n) == Cardinality(Ancestors(T, n))

\* every modified node taken as a root to repack
rootsToRepackAll(T) == T.modifiedSubtrees

\* the highest modified nodes (no modified ancestor)
rootsToRepack(T) ==
    {n \in T.modifiedSubtrees : Ancestors(T, n) \cap T.modifiedSubtrees = {}}

\* the orders std::sort may leave rootsToRepack in: deepest first, nodes of
\* equal depth in any order
RepackOrders(T) ==
    LET R == rootsToRepack(T)
        k == Cardinality(R)
    IN {o \in [1..k -> R] :
          /\ \A i, j \in 1..k : i # j => o[i] # o[j]
          /\ \A i \in 1..k : \A j \in 1..k : i < j => Depth(T, o[i]) >= Depth(T, o[j])}

RECURSIVE PackEach(_, _, _)
PackEach(T, order, i) ==
    IF i > Len(order) THEN T
    ELSE PackEach(packSubtree(T, order[i]), order, i + 1)

\* HBStarTree::repackAffectedSubtrees
repackAffectedSubtrees(T, order) ==
    IF T.modifiedSubtrees = {} \/ T.hung THEN T
    ELSE ReleaseNodes([PackEach(T, order, 1) EXCEPT !.modifiedSubtrees = {}])

\* bounding-box area of the modules' coordinates
BoundingArea(mods) ==
    SetMax({0} \cup {mods[n].x + mods[n].w : n \in DOMAIN mods})
    * SetMax({0} \cup {mods[n].y + mods[n].h : n \in DOMAIN mods})

\* HBStarTree::pack: the two contours after clear() and the segment at 0
ResetContours(T) ==
    [T EXCEPT !.horizontalContour = addSegment(EmptyContour, 0, IntMax, 0),
              !.verticalContour = addSegment(EmptyContour, 0, IntMax, 0)]

\* HBStarTree::pack: totalArea from the modules' coordinates
UpdateTotalArea(T) == [T EXCEPT !.totalArea = BoundingArea(T.modules)]

\* HBStarTree::pack: isPacked = true
SetPacked(T) == [T EXCEPT !.isPacked = TRUE]

\* HBStarTree::pack: packSubtree(root)
PackRoot(T) == packSubtree(T, T.root)

\* the from-scratch branch of HBStarTree::pack
FullPack(T) ==
    SetPacked(updateContourNodes(UpdateTotalArea(PackRoot(ResetContours(T)))))

\* pack without the test of the root
packUnguarded(T, order) ==
    IF T.modifiedSubtrees # {} THEN repackAffectedSubtrees(T, order)
    ELSE FullPack(T)

\* HBStarTree::pack (its return value is packReturns)
pack(T, order) ==
    IF T.root = Nil THEN T
    ELSE IF T.modifiedSubtrees # {} THEN repackAffectedSubtrees(T, order)
    ELSE FullPack(T)

packReturns(T) == T.root # Nil

\* ------------------------------------------------------------------------
\* The five perturbations.  Each operator returns the tree as it is just
\* before the closing repackAffectedSubtrees call, the return value (ok) and
\* whether that call is made (repack).
\* ------------------------------------------------------------------------
Outcome(T, ok, repack) == [T |-> T, ok |-> ok, repack |-> repack]

\* the group lookup loop of rotateModule: index of the first group that has
\* the module in a pair or as self-symmetric, 0 when there is none
RECURSIVE GroupOfModule(_, _, _)
GroupOfModule(T, name, i) ==
    IF i > Len(T.groups) THEN 0
    ELSE IF name \in GroupMembers(symmetryGroups[GroupOf(T.groups[i])])
    THEN GroupOf(T.groups[i])
    ELSE GroupOfModule(T, name, i + 1)

\* HBStarTree::getModuleNode
getModuleNode(T, name) ==
    IF name \in DOMAIN T.moduleNodes THEN T.moduleNodes[name] ELSE Nil

\* the module is found and left as it is
rotateModuleKeepsSides(T, moduleName) ==
    IF moduleName \notin DOMAIN T.modules THEN Outcome(T, FALSE, FALSE)
    ELSE Outcome(T, TRUE, FALSE)

\* HBStarTree::rotateModule
rotateModule(T, moduleName) ==
    IF moduleName \notin DOMAIN T.modules THEN Outcome(T, FALSE, FALSE)
    ELSE LET gi == GroupOfModule(T, moduleName, 1) IN
         IF gi # 0
         THEN LET g == symmetryGroups[gi] IN
              IF g.name \notin DOMAIN T.symmetryGroupNodes THEN Outcome(T, FALSE, FALSE)
              ELSE LET hierarchyNode == T.symmetryGroupNodes[g.name]
                       r == ASFRotateModule(g, T.modules, moduleName)
                       T1 == markSubtreeForRepack([T EXCEPT !.modules = r.mods], hierarchyNode)
                   IN Outcome(T1, r.ok, T1.isPacked /\ r.ok)
         ELSE LET T1 == [T EXCEPT !.modules[moduleName] = ModuleRotate(@)]
                  T2 == markSubtreeForRepack(T1, getModuleNode(T1, moduleName))
              IN Outcome(T2, TRUE, T2.isPacked)

\* the slot search of moveNode for the child that node displaces
RECURSIVE LeftEnd(_, _)
LeftEnd(T, n) == IF T.left[n] = Nil THEN n ELSE LeftEnd(T, T.left[n])
RECURSIVE RightEnd(_, _)
RightEnd(T, n) == IF T.right[n] = Nil THEN n ELSE RightEnd(T, T.right[n])

\* the displaced child always goes to the end of the leftmost chain
PlaceExistingChildLeftmost(T, node, existingChild, asLeftChild) ==
    IF T.left[node] = Nil
    THEN [T EXCEPT !.left[node] = existingChild, !.parent[existingChild] = node]
    ELSE IF T.right[node] = Nil
    THEN [T EXCEPT !.right[node] = existingChild, !.parent[existingChild] = node]
    ELSE [T EXCEPT !.left[LeftEnd(T, T.left[node])] = existingChild,
                   !.parent[existingChild] = LeftEnd(T, T.left[node])]

PlaceExistingChild(T, node, existingChild, asLeftChild) ==
    IF T.left[node] = Nil
    THEN [T EXCEPT !.left[node] = existingChild, !.parent[existingChild] = node]
    ELSE IF T.right[node] = Nil
    THEN [T EXCEPT !.right[node] = existingChild, !.parent[existingChild] = node]
    ELSE IF asLeftChild
    THEN LET current == LeftEnd(T, T.left[node])
         IN [T EXCEPT !.left[current] = existingChild, !.parent[existingChild] = current]
    ELSE LET current == RightEnd(T, T.right[node])
         IN [T EXCEPT !.right[current] = existingChild, !.parent[existingChild] = current]

\* HBStarTree::moveNode
moveNode(T, nodeName, newParentName, asLeftChild) ==
    LET node == findNode(T, nodeName)
        newParent == findNode(T, newParentName)
    IN IF node = Nil \/ newParent = Nil THEN Outcome(T, FALSE, FALSE)
       ELSE
       LET oldParent == T.parent[node]
           \* remove the node from its current parent
           T1 == IF oldParent # Nil
                 THEN markSubtreeForRepack(
                        IF T.left[oldParent] = node THEN [T EXCEPT !.left[oldParent] = Nil]
                        ELSE IF T.right[oldParent] = node THEN [T EXCEPT !.right[oldParent] = Nil]
                        ELSE T,
                        oldParent)
                 ELSE IF node = T.root
                 THEN [T EXCEPT !.root = IF T.left[node] # Nil THEN T.left[node]
                                         ELSE IF T.right[node] # Nil THEN T.right[node]
                                         ELSE Nil]
                 ELSE T
           \* add the node to its new parent
           T2 == [T1 EXCEPT !.parent[node] = newParent]
           existingChild == IF asLeftChild THEN T2.left[newParent] ELSE T2.right[newParent]
           T3 == IF existingChild # Nil
                 THEN markSubtreeForRepack(
                        PlaceExistingChild(T2, node, existingChild, asLeftChild),
                        existingChild)
                 ELSE T2
           T4 == IF asLeftChild THEN [T3 EXCEPT !.left[newParent] = node]
                 ELSE [T3 EXCEPT !.right[newParent] = node]
           T5 == markSubtreeForRepack(markSubtreeForRepack(T4, newParent), node)
       IN Outcome(T5, TRUE, T5.isPacked)

\* parent->setLeftChild(c) or parent->setRightChild(c), by the saved flag
SetSlot(T, p, isLeft, c) ==
    IF isLeft THEN [T EXCEPT !.left[p] = c] ELSE [T EXCEPT !.right[p] = c]

\* the slot of the former child in which swapNodes puts the former parent:
\* the test node1->getLeftChild() == node2 is made after node2 was detached
SwapChildSlotIsLeft(T, upper, lower) == T.left[upper] = lower

\* swapNodes, the two special cases: lower is a direct child of upper
\* (parentU and isLeftU are upper's parent and slot, read before any change)
SwapWithChild(T, upper, lower, parentU, isLeftU) ==
    LET \* detach lower from upper
        T1 == IF T.left[upper] = lower THEN [T EXCEPT !.left[upper] = Nil]
              ELSE [T EXCEPT !.right[upper] = Nil]
        \* detach upper from its parent
        T2 == IF parentU # Nil THEN SetSlot(T1, parentU, isLeftU, Nil) ELSE T1
        \* attach upper as child of lower
        T3 == [SetSlot(T2, lower, SwapChildSlotIsLeft(T2, upper, lower), upper)
                 EXCEPT !.parent[upper] = lower]
        \* attach lower to upper's old parent
    IN IF parentU # Nil
       THEN [SetSlot(T3, parentU, isLeftU, lower) EXCEPT !.parent[lower] = parentU]
       ELSE [T3 EXCEPT !.root = lower, !.parent[lower] = Nil]

\* swapNodes, the general case
SwapGeneral(T, node1, node2, parent1, parent2, isLeftChild1, isLeftChild2) ==
    LET T1 == IF parent1 # Nil THEN SetSlot(T, parent1, isLeftChild1, Nil) ELSE T
        T2 == IF parent2 # Nil THEN SetSlot(T1, parent2, isLeftChild2, Nil) ELSE T1
        leftChild1 == T2.left[node1]
        rightChild1 == T2.right[node1]
        leftChild2 == T2.left[node2]
        rightChild2 == T2.right[node2]
        SetParent(U, c, p) == IF c # Nil THEN [U EXCEPT !.parent[c] = p] ELSE U
        T3 == SetParent(SetParent([T2 EXCEPT !.left[node1] = leftChild2,
                                             !.right[node1] = rightChild2],
                                  leftChild2, node1), rightChild2, node1)
        T4 == SetParent(SetParent([T3 EXCEPT !.left[node2] = leftChild1,
                                             !.right[node2] = rightChild1],
                                  leftChild1, node2), rightChild1, node2)
        T5 == IF parent1 # Nil
              THEN [SetSlot(T4, parent1, isLeftChild1, node2) EXCEPT !.parent[node2] = parent1]
              ELSE [T4 EXCEPT !.root = node2, !.parent[node2] = Nil]
    IN IF parent2 # Nil
       THEN [SetSlot(T5, parent2, isLeftChild2, node1) EXCEPT !.parent[node1] = parent2]
       ELSE [T5 EXCEPT !.root = node1, !.parent[node1] = Nil]

\* HBStarTree::swapNodes
swapNodes(T, nodeName1, nodeName2) ==
    LET node1 == findNode(T, nodeName1)
        node2 == findNode(T, nodeName2)
    IN IF node1 = Nil \/ node2 = Nil THEN Outcome(T, FALSE, FALSE)
       ELSE
       LET T0 == markSubtreeForRepack(markSubtreeForRepack(T, node1), node2)
           parent1 == T0.parent[node1]
           parent2 == T0.parent[node2]
           isLeftChild1 == isLeftChild(T0, node1)
           isLeftChild2 == isLeftChild(T0, node2)
           T1 == IF T0.left[node1] = node2 \/ T0.right[node1] = node2
                 THEN SwapWithChild(T0, node1, node2, parent1, isLeftChild1)
                 ELSE IF T0.left[node2] = node1 \/ T0.right[node2] = node1
                 THEN SwapWithChild(T0, node2, node1, parent2, isLeftChild2)
                 ELSE SwapGeneral(T0, node1, node2, parent1, parent2,
                                  isLeftChild1, isLeftChild2)
       IN Outcome(T1, TRUE, T1.isPacked)

\* HBStarTree::convertSymmetryType
convertSymmetryType(T, symmetryGroupName) ==
    IF symmetryGroupName \notin DOMAIN T.symmetryGroupNodes THEN Outcome(T, FALSE, FALSE)
    ELSE LET hierarchyNode == T.symmetryGroupNodes[symmetryGroupName]
             r == ASFConvertSymmetryType(T.asfTree[hierarchyNode])
             T1 == markSubtreeForRepack([T EXCEPT !.asfTree[hierarchyNode] = r.asf],
                                        hierarchyNode)
         IN Outcome(T1, r.ok, r.ok /\ T1.isPacked)

\* HBStarTree::changeRepresentative
changeRepresentative(T, symmetryGroupName, moduleName) ==
    IF symmetryGroupName \notin DOMAIN T.symmetryGroupNodes THEN Outcome(T, FALSE, FALSE)
    ELSE LET hierarchyNode == T.symmetryGroupNodes[symmetryGroupName]
             r == ASFChangeRepresentative(symmetryGroups[GroupOf(symmetryGroupName)],
                                          T.asfTree[hierarchyNode], moduleName)
             T1 == markSubtreeForRepack([T EXCEPT !.asfTree[hierarchyNode] = r.asf],
                                        hierarchyNode)
         IN Outcome(T1, r.ok, r.ok /\ T1.isPacked)

\* the members of the copy that clone() leaves pointing to objects of the
\* tree it was called on: none, the modules, the groups and the two contours
\* are copied by make_shared<...>(*...) and the nodes are built anew
cloneSharesModules(T) == {"modules"}

cloneShares(T) == {}

\* HBStarTree::clone: the copy is rebuilt by constructInitialTree from copies
\* of the modules and groups, then receives isPacked, totalArea and copies of
\* the two contours
clone(T) ==
    [constructInitialTree([NewTree(T.modules) EXCEPT !.groups = T.groups]) EXCEPT
        !.isPacked = T.isPacked,
        !.totalArea = T.totalArea,
        !.horizontalContour = T.horizontalContour,
        !.verticalContour = T.verticalContour]

\* ------------------------------------------------------------------------
\* The state machine: one HBStarTree object driven by its public operations
\* ------------------------------------------------------------------------
VARIABLES
    modules,            \* name -> Module (x, y, w, h)
    groups,             \* names of the groups in the symmetryGroups vector
    asfTree,            \* hierarchy node -> its ASF-B*-tree
    root,               \* root node or Nil
    left, right, parent,\* link fields of the node objects
    contour,            \* (x1, y1, x2, y2) of the Contour-kind nodes
    live,               \* Contour-kind node objects that exist
    horizontalContour, verticalContour,
    nodeMap, moduleNodes, symmetryGroupNodes,
    modifiedSubtrees,
    totalArea, isPacked,
    hung,               \* the running call never returns
    copy,               \* the tree returned by the last clone(), after its pack()
    last,               \* the last call on the tree: name, return value, branch
    allOk,              \* every perturbation so far returned true
    steps,              \* number of calls made
    standalone,         \* a Contour object driven directly, outside any tree
    contourCall,        \* the last call on it
    pc,                 \* where the main thread of the program stands
    exitCode,           \* the value main() returned, Nil while it runs
    timeoutOccurred,    \* TimeoutManager::timeoutOccurred
    watchdogThread,     \* state of TimeoutManager::watchdogThread
    now,                \* seconds on the steady clock since startTime
    solveSuccess,       \* the local of main()
    results,            \* how parsing, solving and writing ended
    probe               \* the last hasTimedOut / checkTimeout call and its result

tree == << modules, groups, asfTree, root, left, right, parent, contour, live,
           horizontalContour, verticalContour, nodeMap, moduleNodes,
           symmetryGroupNodes, modifiedSubtrees, totalArea, isPacked, hung >>
driver == << copy, last, allOk, steps >>
contourVars == << standalone, contourCall >>
mainVars == << pc, exitCode, timeoutOccurred, watchdogThread, now, solveSuccess,
              results, probe >>
vars == << tree, driver, contourVars, mainVars >>

\* the tree object as a record
Cur ==
    [modules |-> modules, groups |-> groups, asfTree |-> asfTree, root |-> root, left |-> left,
     right |-> right, parent |-> parent, contour |-> contour, live |-> live,
     horizontalContour |-> horizontalContour, verticalContour |-> verticalContour,
     nodeMap |-> nodeMap, moduleNodes |-> moduleNodes,
     symmetryGroupNodes |-> symmetryGroupNodes,
     modifiedSubtrees |-> modifiedSubtrees, totalArea |-> totalArea,
     isPacked |-> isPacked, hung |-> hung]

Becomes(T) ==
    /\ modules' = T.modules
    /\ groups' = T.groups
    /\ asfTree' = T.asfTree
    /\ root' = T.root
    /\ left' = T.left
    /\ right' = T.right
    /\ parent' = T.parent
    /\ contour' = T.contour
    /\ live' = T.live
    /\ horizontalContour' = T.horizontalContour
    /\ verticalContour' = T.verticalContour
    /\ nodeMap' = T.nodeMap
    /\ moduleNodes' = T.moduleNodes
    /\ symmetryGroupNodes' = T.symmetryGroupNodes
    /\ modifiedSubtrees' = T.modifiedSubtrees
    /\ totalArea' = T.totalArea
    /\ isPacked' = T.isPacked
    /\ hung' = T.hung

Call(op, ok, repacked, full) == [op |-> op, ok |-> ok, repacked |-> repacked, full |-> full]

\* no clone is held
NoCopy == [made |-> FALSE]

Starts(T) ==
    /\ modules = T.modules
    /\ groups = T.groups
    /\ asfTree = T.asfTree
    /\ root = T.root
    /\ left = T.left
    /\ right = T.right
    /\ parent = T.parent
    /\ contour = T.contour
    /\ live = T.live
    /\ horizontalContour = T.horizontalContour
    /\ verticalContour = T.verticalContour
    /\ nodeMap = T.nodeMap
    /\ moduleNodes = T.moduleNodes
    /\ symmetryGroupNodes = T.symmetryGroupNodes
    /\ modifiedSubtrees = T.modifiedSubtrees
    /\ totalArea = T.totalArea
    /\ isPacked = T.isPacked
    /\ hung = T.hung

\* the last call on the standalone Contour: its name, whether addSegment was
\* given start >= end (noop), stored a height below the one found in its range
\* (lowered), cut a segment that reaches outside its range (split), and
\* whether the call raised
ContourCall(op, noop, lowered, split, raised) ==
    [op |-> op, noop |-> noop, lowered |-> lowered, split |-> split, raised |-> raised]

\* the standalone Contour as Contour::Contour() leaves it
NewContour ==
    /\ standalone = EmptyContour
    /\ contourCall = ContourCall("Contour", FALSE, FALSE, FALSE, FALSE)

\* the program before main() has run
ProgramAtStart ==
    /\ pc = "main"
    /\ exitCode = Nil
    /\ timeoutOccurred = FALSE
    /\ watchdogThread = "none"
    /\ now = 0
    /\ solveSuccess = FALSE
    /\ results = [parse |-> Nil, solve |-> Nil, write |-> Nil]
    /\ probe = [op |-> "none", result |-> FALSE, seq |-> 0]

\* tree T, on which the caller has made no call yet; op built it
Idle(T, op) ==
    /\ ProgramAtStart
    /\ Starts(T)
    /\ last = Call(op, TRUE, FALSE, FALSE)
    /\ copy = NoCopy
    /\ allOk = TRUE
    /\ steps = 0

\* the tree after loadProblem has filled it and called constructInitialTree,
\* or a tree that was filled by addModule / addSymmetryGroup and whose
\* constructInitialTree has not been called (its root is null)
Init ==
    /\ NewContour
    /\ \/ Idle(constructInitialTree(NewTree(InitModules)), "constructInitialTree")
       \/ Idle(NewTree(InitModules), "addSymmetryGroup")

\* the Contour-kind objects a from-scratch pack creates fit in the pool
HeapRoom(T) ==
    LET need(h) == Len(ASFPack(symmetryGroups[GroupOf(h)], T.asfTree[h],
                               T.modules).asf.horizontal.segments)
        RECURSIVE Sum(_)
        Sum(S) == IF S = {} THEN 0
                  ELSE LET h == CHOOSE e \in S : TRUE IN need(h) + Sum(S \ {h})
    IN Cardinality(T.live) + Sum(DOMAIN T.symmetryGroupNodes) <= MaxContourNodes

\* the driver is not stuck in a call and has calls left
CanCall == ~hung /\ steps < MaxSteps

Ghosts(call, ok) ==
    /\ UNCHANGED << contourVars, mainVars >>
    /\ last' = call
    /\ allOk' = (allOk /\ ok)
    /\ steps' = steps + 1

\* a perturbation with outcome o, its closing repack included
Perturb(o, op) ==
    \E order \in RepackOrders(o.T) :
        /\ Becomes(IF o.repack THEN repackAffectedSubtrees(o.T, order) ELSE o.T)
        /\ Ghosts(Call(op, o.ok, o.repack /\ ~o.T.hung, FALSE), o.ok)
        /\ copy' = NoCopy

RotateModule ==
    /\ CanCall
    /\ \E name \in ModuleNames \cup {Unknown} :
          Perturb(rotateModule(Cur, name), "rotateModule")

MoveNode ==
    /\ CanCall
    /\ \E n \in NamedNodes \cup {Unknown}, p \in NamedNodes \cup {Unknown}, asLeft \in BOOLEAN :
          Perturb(moveNode(Cur, n, p, asLeft), "moveNode")

SwapNodes ==
    /\ CanCall
    /\ \E n1 \in NamedNodes \cup {Unknown}, n2 \in NamedNodes \cup {Unknown} :
          Perturb(swapNodes(Cur, n1, n2), "swapNodes")

ConvertSymmetryType ==
    /\ CanCall
    /\ \E g \in GroupNames \cup {Unknown} :
          Perturb(convertSymmetryType(Cur, g), "convertSymmetryType")

ChangeRepresentative ==
    /\ CanCall
    /\ \E g \in GroupNames \cup {Unknown}, name \in ModuleNames \cup {Unknown} :
          Perturb(changeRepresentative(Cur, g, name), "changeRepresentative")

Pack ==
    /\ CanCall
    /\ HeapRoom(Cur)
    /\ \E order \in RepackOrders(Cur) :
          /\ Becomes(pack(Cur, order))
          /\ Ghosts(Call("pack", packReturns(Cur),
                         root # Nil /\ modifiedSubtrees # {},
                         root # Nil /\ modifiedSubtrees = {}), TRUE)
          /\ copy' = NoCopy

\* clone() of the tree; the copy is kept until the next call on the tree
Clone ==
    /\ CanCall
    /\ copy' = [made |-> TRUE, packed |-> FALSE, shares |-> cloneShares(Cur),
                tree |-> clone(Cur)]
    /\ steps' = steps + 1
    /\ UNCHANGED << tree, last, allOk, contourVars, mainVars >>

\* a call on the copy has left it as tree T: the objects the copy shares
\* with the tree change with it, everything else of the tree stays
OnCopy(T, packed) ==
    /\ copy' = [copy EXCEPT !.tree = T, !.packed = packed]
    /\ modules' = IF "modules" \in copy.shares THEN T.modules ELSE modules
    /\ horizontalContour' = IF "contours" \in copy.shares THEN T.horizontalContour
                            ELSE horizontalContour
    /\ verticalContour' = IF "contours" \in copy.shares THEN T.verticalContour
                          ELSE verticalContour
    /\ UNCHANGED << groups, asfTree, root, left, right, parent, contour, live,
                    nodeMap, moduleNodes, symmetryGroupNodes, modifiedSubtrees,
                    totalArea, isPacked, hung >>
    /\ steps' = steps + 1
    /\ UNCHANGED << last, allOk, contourVars, mainVars >>

\* pack() on the copy
PackCopy ==
    /\ CanCall
    /\ copy.made /\ ~copy.packed
    /\ HeapRoom(copy.tree)
    /\ \E order \in RepackOrders(copy.tree) : OnCopy(pack(copy.tree, order), TRUE)

Next ==
    \/ RotateModule
    \/ MoveNode
    \/ SwapNodes
    \/ ConvertSymmetryType
    \/ ChangeRepresentative
    \/ Pack
    \/ Clone
    \/ PackCopy

Spec == Init /\ [][Next]_vars

\* ------------------------------------------------------------------------
\* A Contour object driven directly through its public operations
\* ------------------------------------------------------------------------
Coordinates == 0..MaxCoordinate
SegmentHeights == 0..MaxSegmentHeight

\* the contours handed to merge(): built by at most two addSegment calls
OtherContours ==
    {addSegment(addSegment(EmptyContour, s1, e1, h1), s2, e2, h2) :
        s1 \in Coordinates, e1 \in Coordinates, h1 \in SegmentHeights,
        s2 \in Coordinates, e2 \in Coordinates, h2 \in SegmentHeights}

\* a stored segment reaches outside [start, end) and into it
Straddles(c, start, end) ==
    \E i \in 1..Len(c.segments) :
        /\ c.segments[i].start < end /\ start < c.segments[i].end
        /\ c.segments[i].start < start \/ end < c.segments[i].end

ContourClear ==
    /\ standalone' = EmptyContour
    /\ contourCall' = ContourCall("clear", FALSE, FALSE, FALSE, FALSE)
    /\ UNCHANGED << tree, driver, mainVars >>

ContourAddSegment ==
    /\ \E start \in Coordinates, end \in Coordinates, height \in SegmentHeights :
          /\ standalone' = addSegment(standalone, start, end, height)
          /\ contourCall' = ContourCall("addSegment", start >= end,
                                        start < end /\ getHeight(standalone, start, end) > height,
                                        start < end /\ Straddles(standalone, start, end),
                                        FALSE)
    /\ UNCHANGED << tree, driver, mainVars >>

\* the outcome r of merge() taken over
Merged(r) ==
    /\ standalone' = r.contour
    /\ contourCall' = ContourCall("merge", FALSE, FALSE, FALSE, r.raised)

ContourMerge ==
    /\ \E other \in OtherContours : Merged(merge(standalone, other))
    /\ UNCHANGED << tree, driver, mainVars >>

ContourNext ==
    \/ ContourClear
    \/ ContourAddSegment
    \/ ContourMerge

\* a new Contour; the tree is filled and left alone
ContourInit == NewContour /\ Idle(NewTree(InitModules), "addSymmetryGroup")

ContourSpec == ContourInit /\ [][ContourNext]_vars

\* ------------------------------------------------------------------------
\* A clone driven through perturbations and pack() next to its original
\* ------------------------------------------------------------------------
\* the perturbations made on the copy
CopyPerturbations(T) ==
    {rotateModule(T, "m1"), rotateModule(T, "a"),
     moveNode(T, "m2", "g1", FALSE), moveNode(T, "m2", "m1", FALSE),
     swapNodes(T, "m1", "m2"),
     convertSymmetryType(T, "g1"), changeRepresentative(T, "g1", "b")}

\* a perturbation on the copy, its closing repack included
PerturbCopy ==
    /\ CanCall
    /\ copy.made /\ ~copy.tree.hung
    /\ \E o \in CopyPerturbations(copy.tree) :
          \E order \in RepackOrders(o.T) :
              OnCopy(IF o.repack THEN repackAffectedSubtrees(o.T, order) ELSE o.T,
                     copy.packed)

\* pack() on the copy, any number of times
RepackCopy ==
    /\ CanCall
    /\ copy.made /\ ~copy.tree.hung
    /\ HeapRoom(copy.tree)
    /\ \E order \in RepackOrders(copy.tree) : OnCopy(pack(copy.tree, order), TRUE)

CloneInit ==
    /\ NewContour
    /\ Idle(constructInitialTree(NewTree(InitModules)), "constructInitialTree")

CloneNext ==
    \/ Pack
    \/ Clone
    \/ PerturbCopy
    \/ RepackCopy

CloneSpec == CloneInit /\ [][CloneNext]_vars

\* ------------------------------------------------------------------------
\* The program: main() and the watchdog thread of its TimeoutManager
\* (src/main.cpp, src/solver/solver.cpp, src/utils/TimeoutManager.hpp)
\* ------------------------------------------------------------------------
\* how a call can end: it returns true, returns false, or throws
Endings == {"true", "false", "throws"}

\* a checkTimeout that never raises
checkTimeoutNever(flag) == FALSE

\* TimeoutManager::checkTimeout: whether it raises
checkTimeout(flag) == flag

\* TimeoutManager::hasTimedOut
hasTimedOut(flag) == flag

Unused == UNCHANGED << tree, driver, contourVars >>

\* return code; from main()
Return(code) == pc' = "returned" /\ exitCode' = code

\* main(): the checks of argc and of the area ratio, then
\* make_shared<TimeoutManager>(290) and startWatchdog()
MainArguments ==
    /\ pc = "main"
    /\ \E valid \in BOOLEAN :
          IF valid
          THEN /\ pc' = "parse"
               /\ watchdogThread' = "running"
               /\ now' = 0
               /\ UNCHANGED exitCode
          ELSE /\ Return(1)
               /\ UNCHANGED << watchdogThread, now >>
    /\ UNCHANGED << timeoutOccurred, solveSuccess, results, probe >>
    /\ Unused

\* main(): Parser::parseInputFile, then loadProblem and the set... calls
MainParse ==
    /\ pc = "parse"
    /\ \E r \in Endings :
          /\ results' = [results EXCEPT !.parse = r]
          /\ IF r = "true" THEN pc' = "solve" /\ UNCHANGED exitCode ELSE Return(1)
    /\ UNCHANGED << timeoutOccurred, watchdogThread, now, solveSuccess, probe >>
    /\ Unused

\* solver.solve() has ended as r, and main() has assigned or kept solveSuccess
Solved(r) ==
    /\ results' = [results EXCEPT !.solve = r]
    /\ solveSuccess' = (r = "true")
    /\ pc' = "solved"

\* the next probe record
Probed(op, result) == [op |-> op, result |-> result, seq |-> 1 - probe.seq]

\* PlacementSolver::solve up to sa.run(): the initial solution, then the
\* hasTimedOut test
SolveBegin ==
    /\ pc = "solve"
    /\ \E built \in BOOLEAN :
          IF ~built
          THEN Solved("false") /\ UNCHANGED probe
          ELSE /\ probe' = Probed("hasTimedOut", hasTimedOut(timeoutOccurred))
               /\ IF hasTimedOut(timeoutOccurred)
                  THEN Solved("false")
                  ELSE pc' = "run" /\ UNCHANGED << results, solveSuccess >>
    /\ UNCHANGED << exitCode, timeoutOccurred, watchdogThread, now >>
    /\ Unused

\* SimulatedAnnealing::run asks the TimeoutManager it was given
PollHasTimedOut ==
    /\ pc = "run"
    /\ probe' = Probed("hasTimedOut", hasTimedOut(timeoutOccurred))
    /\ UNCHANGED << pc, exitCode, timeoutOccurred, watchdogThread, now, solveSuccess,
                    results >>
    /\ Unused

\* SimulatedAnnealing::run calls checkTimeout; the runtime_error leaves
\* run() and solve() and is caught in main()
PollCheckTimeout ==
    /\ pc = "run"
    /\ probe' = Probed("checkTimeout", checkTimeout(timeoutOccurred))
    /\ IF checkTimeout(timeoutOccurred)
       THEN Solved("throws")
       ELSE UNCHANGED << pc, results, solveSuccess >>
    /\ UNCHANGED << exitCode, timeoutOccurred, watchdogThread, now >>
    /\ Unused

\* sa.run() ends: a result (the rest of solve() returns true), a null result
\* (solve() returns false), or an exception
RunEnds ==
    /\ pc = "run"
    /\ \E r \in Endings : Solved(r)
    /\ UNCHANGED << exitCode, timeoutOccurred, watchdogThread, now, probe >>
    /\ Unused

\* main(): if (!solveSuccess && !timeoutManager->hasTimedOut()) return 1;
MainDecide ==
    /\ pc = "solved"
    /\ probe' = Probed("hasTimedOut", hasTimedOut(timeoutOccurred))
    /\ IF ~solveSuccess /\ ~hasTimedOut(timeoutOccurred)
       THEN Return(1)
       ELSE pc' = "write" /\ UNCHANGED exitCode
    /\ UNCHANGED << timeoutOccurred, watchdogThread, now, solveSuccess, results >>
    /\ Unused

\* main(): Parser::writeOutputFile and the two returns after it
MainWrite ==
    /\ pc = "write"
    /\ \E r \in Endings :
          /\ results' = [results EXCEPT !.write = r]
          /\ Return(IF r = "true" THEN 0 ELSE 1)
    /\ UNCHANGED << timeoutOccurred, watchdogThread, now, solveSuccess, probe >>
    /\ Unused

\* a destructor that does not wait for the watchdog thread
MainJoinWithoutWaiting ==
    /\ pc = "returned"
    /\ pc' = "exited"
    /\ UNCHANGED << exitCode, timeoutOccurred, watchdogThread, now, solveSuccess,
                    results, probe >>
    /\ Unused

\* ~TimeoutManager: join() on the watchdog thread when it is joinable
MainJoin ==
    /\ pc = "returned"
    /\ watchdogThread \in {"none", "exited"}
    /\ pc' = "exited"
    /\ UNCHANGED << exitCode, timeoutOccurred, watchdogThread, now, solveSuccess,
                    results, probe >>
    /\ Unused

\* one round of the loop of the watchdog thread
WatchdogLoop ==
    /\ watchdogThread = "running"
    /\ IF timeoutOccurred
       THEN watchdogThread' = "exited" /\ UNCHANGED timeoutOccurred
       ELSE IF now >= timeoutSeconds
       THEN timeoutOccurred' = TRUE /\ watchdogThread' = "exited"
       ELSE watchdogThread' = "sleeping" /\ UNCHANGED timeoutOccurred
    /\ UNCHANGED << pc, exitCode, now, solveSuccess, results, probe >>
    /\ Unused

\* a second passes; sleep_for(1s) of the watchdog ends
Tick ==
    /\ watchdogThread # "none"
    /\ pc # "exited"
    /\ now < MaxElapsed
    /\ now' = now + 1
    /\ watchdogThread' = IF watchdogThread = "sleeping" THEN "running" ELSE watchdogThread
    /\ UNCHANGED << pc, exitCode, timeoutOccurred, solveSuccess, results, probe >>
    /\ Unused

MainInit ==
    /\ NewContour
    /\ Idle(NewTree(InitModules), "addSymmetryGroup")

MainNext ==
    \/ MainArguments
    \/ MainParse
    \/ SolveBegin
    \/ PollHasTimedOut
    \/ PollCheckTimeout
    \/ RunEnds
    \/ MainDecide
    \/ MainWrite
    \/ MainJoin
    \/ WatchdogLoop
    \/ Tick

MainSpec == MainInit /\ [][MainNext]_vars

\* ------------------------------------------------------------------------
\* PlacementSolver::loadProblem and createInitialSolution over several designs
\* ------------------------------------------------------------------------
Sides == 1..MaxSide

\* the modules outside the group, with every choice of their sides
FreeSides ==
    {[n \in {"m1", "m2"} |-> IF n = "m1" THEN Module(w1, h1) ELSE Module(w2, h2)] :
        w1 \in Sides, h1 \in Sides, w2 \in Sides, h2 \in Sides}

\* the modules map of a design with the two free modules f and with the
\* modules of the group (withGroup) or without them
DesignModules(f, withGroup) ==
    [n \in (IF withGroup THEN ModuleNames ELSE {"m1", "m2"}) |->
        IF n \in DOMAIN f THEN Module(f[n].w, f[n].h) ELSE InitModules[n]]

\* PlacementSolver::loadProblem: a new tree, addModule for every module,
\* addSymmetryGroup for every group
loadProblem(f, withGroup) ==
    [NewTree(DesignModules(f, withGroup)) EXCEPT
        !.groups = IF withGroup THEN @ ELSE << >>]

\* the designs: without the group, the two free modules with every choice of
\* sides; with the group, the free modules as they are in InitModules
BuildInit ==
    /\ NewContour
    /\ \/ \E f \in FreeSides : Idle(loadProblem(f, FALSE), "addSymmetryGroup")
       \/ Idle(loadProblem(InitModules, TRUE), "addSymmetryGroup")

\* HBStarTree::constructInitialTree, called once by createInitialSolution
ConstructInitialTree ==
    /\ CanCall
    /\ last.op = "addSymmetryGroup"
    /\ Becomes(constructInitialTree(Cur))
    /\ Ghosts(Call("constructInitialTree", TRUE, FALSE, FALSE), TRUE)
    /\ copy' = NoCopy

BuildNext ==
    \/ ConstructInitialTree
    \/ Pack
    \/ RotateModule

BuildSpec == BuildInit /\ [][BuildNext]_vars

\* ------------------------------------------------------------------------
\* moveNode and swapNodes on a tree of Module nodes, each call recorded with
\* its arguments and with the links it found
\* ------------------------------------------------------------------------
\* the design without its group: five Module nodes
TopologyModules == InitModules

\* the root and the link fields as a call finds them
Links == [root |-> root, left |-> left, right |-> right, parent |-> parent]

TracedCall(op, ok, repacked, args) ==
    [op |-> op, ok |-> ok, repacked |-> repacked, full |-> FALSE,
     args |-> args, before |-> Links]

\* a perturbation with outcome o, its closing repack included
Traced(o, op, args) ==
    \E order \in RepackOrders(o.T) :
        /\ Becomes(IF o.repack THEN repackAffectedSubtrees(o.T, order) ELSE o.T)
        /\ last' = TracedCall(op, o.ok, o.repack /\ ~o.T.hung, args)
        /\ allOk' = (allOk /\ o.ok)
        /\ steps' = steps + 1
        /\ UNCHANGED << copy, contourVars, mainVars >>

CanMove == ~hung /\ steps < MaxMoves

TracedMoveNode ==
    /\ CanMove
    /\ \E n \in DOMAIN modules, p \in DOMAIN modules, asLeft \in BOOLEAN :
          Traced(moveNode(Cur, n, p, asLeft), "moveNode", << n, p, asLeft >>)

TracedSwapNodes ==
    /\ CanMove
    /\ \E n1 \in DOMAIN modules, n2 \in DOMAIN modules :
          Traced(swapNodes(Cur, n1, n2), "swapNodes", << n1, n2 >>)

TopologyInit ==
    /\ NewContour
    /\ Idle(constructInitialTree([NewTree(TopologyModules) EXCEPT !.groups = << >>]),
            "constructInitialTree")

TopologyNext ==
    \/ TracedMoveNode
    \/ TracedSwapNodes

TopologySpec == TopologyInit /\ [][TopologyNext]_vars

\* ------------------------------------------------------------------------
\* A design with two islands: the groups g2 and g3 and three free modules.
\* The tree is taken up along one run of calls, at any point from its
\* fourth call on:
\*   swapNodes("g2", "m1"), moveNode("s", "m1", false), pack(), pack()
\*     leave the tree packed with one Contour node below each Hierarchy node,
\*       m1 (left: g3 (left: g2 (left: m2)), right: s)
\*   moveNode("g2", "m1", false) hangs s below the Contour node of g2,
\*       m1 (left: g3, right: g2 (left: m2, right: contour (right: s)))
\*   swapNodes("g2", "m1") makes g2 the root and m1 its right child
\*   moveNode("g2", "s", false) moves the root
\* ------------------------------------------------------------------------
TwoIslands == [NewTree(InitModules) EXCEPT !.groups = << "g2", "g3" >>]

\* the trees pack() can leave of the trees in Ts
PackedOnce(Ts) == UNION {{pack(T, order) : order \in RepackOrders(T)} : T \in Ts}

PreparedTrees ==
    PackedOnce(PackedOnce({
        moveNode(swapNodes(constructInitialTree(TwoIslands), "g2", "m1").T,
                 "s", "m1", FALSE).T}))

\* the trees a perturbation with outcome o can leave, its repack included
Settled(o) ==
    {IF o.repack THEN repackAffectedSubtrees(o.T, order) ELSE o.T :
        order \in RepackOrders(o.T)}

PreparedBelowContour ==
    UNION {Settled(moveNode(T, "g2", "m1", FALSE)) : T \in PreparedTrees}

PreparedSwapped ==
    UNION {Settled(swapNodes(T, "g2", "m1")) : T \in PreparedBelowContour}

PreparedRootMoved ==
    UNION {Settled(moveNode(T, "g2", "s", FALSE)) : T \in PreparedSwapped}

CanRegenerate == ~hung /\ steps < MaxRegen

IslandsMoveNode ==
    /\ CanRegenerate
    /\ \E n \in DOMAIN nodeMap, p \in DOMAIN nodeMap, asLeft \in BOOLEAN :
          Traced(moveNode(Cur, n, p, asLeft), "moveNode", << n, p, asLeft >>)

IslandsSwapNodes ==
    /\ CanRegenerate
    /\ \E n1 \in DOMAIN nodeMap, n2 \in DOMAIN nodeMap :
          Traced(swapNodes(Cur, n1, n2), "swapNodes", << n1, n2 >>)

IslandsPack == CanRegenerate /\ Pack

IslandsInit ==
    /\ NewContour
    /\ \/ \E T \in PreparedTrees : Idle(T, "pack")
       \/ \E T \in PreparedBelowContour \cup PreparedRootMoved : Idle(T, "moveNode")
       \/ \E T \in PreparedSwapped : Idle(T, "swapNodes")

IslandsNext ==
    \/ IslandsMoveNode
    \/ IslandsSwapNodes
    \/ IslandsPack

IslandsSpec == IslandsInit /\ [][IslandsNext]_vars

\* ------------------------------------------------------------------------
\* Properties of the placement (spec section 8) and of the tree
\* ------------------------------------------------------------------------
\* the placed rectangles of p and q share area
Overlap(p, q) ==
    /\ p.x < q.x + q.w /\ q.x < p.x + p.w
    /\ p.y < q.y + q.h /\ q.y < p.y + p.h

NoOverlap(mods) ==
    \A m, n \in DOMAIN mods : m # n => ~Overlap(mods[m], mods[n])

\* pack() has just returned true and every perturbation before it returned true
AfterPack == last.op = "pack" /\ last.ok /\ allOk

\* pack() has just returned true from its from-scratch branch
AfterFullPack == AfterPack /\ last.full

\* C1 (P1): after any sequence of successful perturbations followed by a full
\* pack(), no two distinct registered modules have placed rectangles whose
\* intersection has non-zero area.
C1_NoOverlapAfterFullPack == AfterFullPack => NoOverlap(modules)

\* C2 (P8): when a perturbation on a packed tree has returned after its
\* incremental repack, the module coordinates equal the ones a from-scratch
\* pack() with reset contours gives on the same tree.
C2_IncrementalEqualsFromScratch ==
    (last.op # "pack" /\ last.repacked /\ allOk /\ ~hung)
        => modules = FullPack(Cur).modules

\* C3 (P3): after successful perturbations (also ones made before the first
\* pack) followed by pack() returning true, totalArea is max(x+w) * max(y+h)
\* over the modules' current coordinates.
C3_AreaIsBoundingBox == AfterPack => totalArea = BoundingArea(modules)

\* group g is mirrored about the vertical line x = A (doubled to stay integral)
SymmetricAbout(g, A, mods) ==
    /\ \A i \in 1..Len(g.pairs) :
          LET a == mods[g.pairs[i][1]]
              b == mods[g.pairs[i][2]]
          IN /\ (2 * a.x + a.w) + (2 * b.x + b.w) = 4 * A
             /\ a.y = b.y
             /\ a.h = b.h
    /\ \A i \in 1..Len(g.selfSymmetric) :
          LET m == mods[g.selfSymmetric[i]] IN 2 * m.x + m.w = 2 * A

\* C4 (P4): after pack(), every vertical-axis group is mirrored about its ASF
\* tree's symmetryAxisPosition, with the final (translated) coordinates.
C4_SymmetricAboutAxisPosition ==
    AfterPack =>
        \A h \in SeqRange(groups) :
            asfTree[h].axis = "V" =>
                SymmetricAbout(symmetryGroups[GroupOf(h)],
                               asfTree[h].symmetryAxisPosition, modules)

\* C5 (I4): the name-to-node index holds exactly the Module and Hierarchy
\* nodes reachable from root, and no Contour node.
C5_IndexIsTheTree ==
    (allOk /\ ~hung) =>
        /\ {nodeMap[k] : k \in DOMAIN nodeMap} = InTree(Cur) \cap NamedNodes
        /\ DOMAIN nodeMap \cap ContourIds = {}

\* the nodes linked through left children, starting at n
RECURSIVE LeftChain(_, _)
LeftChain(T, n) == IF n = Nil THEN << >> ELSE << n >> \o LeftChain(T, T.left[n])

\* the right child of Hierarchy node h heads one chain of Contour nodes, one
\* per segment of the island's horizontal skyline, in segment order
ChainMirrors(T, h) ==
    LET segs == T.asfTree[h].horizontal.segments
        chain == LeftChain(T, T.right[h])
    IN /\ Len(chain) = Len(segs)
       /\ \A i \in 1..Len(chain) :
             /\ getType(chain[i]) = "CONTOUR"
             /\ T.right[chain[i]] = Nil \/ getType(T.right[chain[i]]) # "CONTOUR"
             /\ T.contour[chain[i]] = [x1 |-> segs[i].start, y1 |-> segs[i].height,
                                       x2 |-> segs[i].end, y2 |-> segs[i].height]

\* the Contour nodes of the chains headed by the Hierarchy nodes' right children
ChainNodes(T) == UNION {SeqRange(LeftChain(T, T.right[h])) : h \in SeqRange(T.groups)}

\* C6 (I3): after every full pack(), each Hierarchy node's right child heads
\* exactly one chain of Contour nodes mirroring the island's skyline segments,
\* and no Contour node outside these chains (one of an earlier pack) is
\* reachable from root.
C6_ContourChainsMirrorSkyline ==
    AfterFullPack =>
        /\ \A h \in SeqRange(groups) : ChainMirrors(Cur, h)
        /\ InTree(Cur) \cap ContourIds \subseteq ChainNodes(Cur)

\* the highest top edge among the modules whose x-extent covers x0, 0 if none
TopAt(mods, x0) ==
    SetMax({0} \cup {mods[n].y + mods[n].h :
                        n \in {m \in DOMAIN mods :
                                  mods[m].x <= x0 /\ x0 < mods[m].x + mods[m].w}})

\* C7 (P7): after pack(), horizontalContour.getHeight(x0, x0+1) is the maximum
\* of m.y + m.h over the modules covering x0, island modules included.
C7_ContourIsModuleSkyline ==
    AfterPack =>
        \A x0 \in 0..MaxProbe :
            getHeight(horizontalContour, x0, x0 + 1) = TopAt(modules, x0)

\* C8 (P6): a pack() called right after a pack() that returned true leaves
\* every module's (x, y, w, h) as it was.
C8_SecondPackChangesNothing ==
    [][(last.op = "pack" /\ last.ok /\ Pack) => modules' = modules]_vars

\* C9 (P5): for a tree reached by successful perturbations and then packed,
\* pack() on its clone() gives the bounding-box area of the original.
C9_ClonePacksToSameArea ==
    (AfterPack /\ copy.made /\ copy.packed)
        => BoundingArea(copy.tree.modules) = BoundingArea(modules)

\* C10 (P2): after successful perturbations followed by pack(), every module
\* has x >= 0 and y >= 0, island modules after their translation included.
C10_FirstQuadrant ==
    AfterPack => \A m \in ModuleNames : modules[m].x >= 0 /\ modules[m].y >= 0

\* a pack() has placed an island away from the origin, so that its modules
\* were translated by a non-zero (x - minX, y - minY)
C10_IslandTranslated ==
    /\ AfterPack
    /\ \E h \in SeqRange(groups) :
          LET members == GroupMembers(symmetryGroups[GroupOf(h)])
          IN /\ h \in InTree(Cur)
             /\ \/ SetMin({modules[n].x : n \in members}) > 0
                \/ SetMin({modules[n].y : n \in members}) > 0

\* ------------------------------------------------------------------------
\* Error handling and the isPacked / modifiedSubtrees protocol (spec sections
\* 4.6 and 7)
\* ------------------------------------------------------------------------
\* a perturbation is called with a name that is not registered
UnknownNameCall ==
    \/ Perturb(rotateModule(Cur, Unknown), "rotateModule")
    \/ \E n \in NamedNodes \cup {Unknown}, asLeft \in BOOLEAN :
          \/ Perturb(moveNode(Cur, Unknown, n, asLeft), "moveNode")
          \/ Perturb(moveNode(Cur, n, Unknown, asLeft), "moveNode")
    \/ \E n \in NamedNodes \cup {Unknown} :
          \/ Perturb(swapNodes(Cur, Unknown, n), "swapNodes")
          \/ Perturb(swapNodes(Cur, n, Unknown), "swapNodes")
    \/ Perturb(convertSymmetryType(Cur, Unknown), "convertSymmetryType")
    \/ \E g \in GroupNames \cup {Unknown}, name \in ModuleNames \cup {Unknown} :
          /\ g = Unknown \/ name = Unknown
          /\ Perturb(changeRepresentative(Cur, g, name), "changeRepresentative")

\* C11: a perturbation given a module, node or group name that is not
\* registered returns false and leaves tree links, root, modules, contours,
\* modifiedSubtrees, isPacked and totalArea as they were.
C11_UnknownNameChangesNothing ==
    [][(CanCall /\ UnknownNameCall)
          => /\ last'.ok = FALSE
             /\ UNCHANGED << root, left, right, parent, modules, horizontalContour,
                             verticalContour, modifiedSubtrees, isPacked, totalArea >>]_vars

\* C12: pack() on a tree whose root is null returns false and leaves the
\* contours, totalArea, isPacked and modifiedSubtrees unchanged.
C12_PackOfEmptyTreeFails ==
    [][(root = Nil /\ Pack)
          => /\ last'.ok = FALSE
             /\ UNCHANGED << horizontalContour, verticalContour, totalArea, isPacked,
                             modifiedSubtrees >>]_vars

\* pack() has been called on a tree without root
C12_EmptyTreePacked == root = Nil /\ last.op = "pack" /\ last.ok = FALSE

\* C13: every pack() call that returns true leaves isPacked = true, whether
\* or not nodes were marked before the call.
C13_PackLeavesPacked == (last.op = "pack" /\ last.ok) => isPacked

\* a perturbation is called with names that are all registered
RegisteredCall ==
    \/ \E name \in DOMAIN modules : Perturb(rotateModule(Cur, name), "rotateModule")
    \/ \E n \in DOMAIN nodeMap, p \in DOMAIN nodeMap, asLeft \in BOOLEAN :
          Perturb(moveNode(Cur, n, p, asLeft), "moveNode")
    \/ \E n1 \in DOMAIN nodeMap, n2 \in DOMAIN nodeMap :
          Perturb(swapNodes(Cur, n1, n2), "swapNodes")
    \/ \E g \in DOMAIN symmetryGroupNodes :
          Perturb(convertSymmetryType(Cur, g), "convertSymmetryType")
    \/ \E g \in DOMAIN symmetryGroupNodes, name \in DOMAIN modules :
          Perturb(changeRepresentative(Cur, g, name), "changeRepresentative")

\* C14: a perturbation called on a packed tree with registered names has run
\* the incremental repack when it returns, so that modifiedSubtrees is empty,
\* whether the ASF operation reported success or failure.
C14_PerturbationLeavesNoMarks ==
    [][(CanCall /\ isPacked /\ RegisteredCall /\ ~hung') => modifiedSubtrees' = {}]_vars

\* ------------------------------------------------------------------------
\* Properties of the Contour (spec section 4.1), on the standalone object.
\* Coordinates and heights are natural numbers, as the tree's are.
\* ------------------------------------------------------------------------
\* C15: after addSegment(start, end, height) with start < end, getHeight(a, b)
\* is exactly height for every sub-range [a, b) of [start, end), also when
\* height is lower than the heights stored there before.
C15_AddSegmentReplacesHeight ==
    \A start \in Coordinates, end \in Coordinates, height \in SegmentHeights :
        start < end =>
            \A a \in start..end, b \in start..end :
                a < b => getHeight(addSegment(standalone, start, end, height), a, b) = height

\* addSegment has stored a height below the one its range had
C15_LowerHeightStored == contourCall.op = "addSegment" /\ contourCall.lowered

\* C16: addSegment(start, end, height) leaves getHeight(p, p+1) as it was for
\* every unit interval [p, p+1) disjoint from [start, end), also where a
\* segment straddling start or end is split.
C16_AddSegmentKeepsOutside ==
    \A start \in Coordinates, end \in Coordinates, height \in SegmentHeights :
        start < end =>
            \A p \in 0..(MaxCoordinate - 1) :
                (p + 1 <= start \/ end <= p) =>
                    getHeight(addSegment(standalone, start, end, height), p, p + 1)
                        = getHeight(standalone, p, p + 1)

\* addSegment has cut a segment that reached outside its range
C16_SegmentSplit == contourCall.op = "addSegment" /\ contourCall.split

\* sorted by start, start < end, no overlap, touching neighbours differ in height
WellFormed(c) ==
    /\ \A i \in 1..Len(c.segments) : c.segments[i].start < c.segments[i].end
    /\ \A i \in 1..Len(c.segments), j \in 1..Len(c.segments) :
          i < j => /\ c.segments[i].start < c.segments[j].start
                   /\ c.segments[i].end <= c.segments[j].start
    /\ \A i \in 1..(Len(c.segments) - 1) :
          c.segments[i].end = c.segments[i + 1].start
              => c.segments[i].height # c.segments[i + 1].height

\* C17: after any sequence of clear(), addSegment() and merge() calls the
\* segment list is sorted by start, every segment has start < end, no two
\* segments overlap and no two touching neighbours have equal height.
C17_ContourWellFormed == WellFormed(standalone)

\* merge() has left a contour of several segments
C17_MergedSeveral ==
    /\ contourCall.op = "merge" /\ ~contourCall.raised
    /\ Len(standalone.segments) >= 2

\* the stored segments that intersect [start, end)
Intersecting(c, start, end) ==
    {i \in 1..Len(c.segments) : c.segments[i].start < end /\ start < c.segments[i].end}

\* C18: getHeight(start, end) is the maximum height among the stored segments
\* that intersect [start, end), and 0 when none does (empty contour and
\* start >= end included).
C18_GetHeightIsMaximum ==
    \A start \in Coordinates, end \in Coordinates :
        getHeight(standalone, start, end)
            = IF start >= end THEN 0
              ELSE SetMax({0} \cup {standalone.segments[i].height :
                                       i \in Intersecting(standalone, start, end)})

\* a query range that begins inside a segment and reaches a higher one
C18_RangeOverSeveral ==
    \E start \in Coordinates, end \in Coordinates :
        \E i \in Intersecting(standalone, start, end), j \in Intersecting(standalone, start, end) :
            /\ standalone.segments[i].start < start
            /\ standalone.segments[i].height < standalone.segments[j].height

\* C19: merge(other) completes without failure for every pair of contours,
\* both empty included, and afterwards getHeight(p, p+1) is the maximum of
\* the two former values for every p.
C19_MergeIsPointwiseMaximum ==
    \A other \in OtherContours :
        /\ ~merge(standalone, other).raised
        /\ \A p \in 0..(MaxCoordinate - 1) :
              getHeight(merge(standalone, other).contour, p, p + 1)
                  = Max(getHeight(standalone, p, p + 1), getHeight(other, p, p + 1))

\* C20: addSegment(start, end, height) with start >= end changes neither the
\* segment list nor maxCoordinate nor maxHeight.
C20_EmptyRangeIsNoOp ==
    \A start \in Coordinates, end \in Coordinates, height \in SegmentHeights :
        start >= end => addSegment(standalone, start, end, height) = standalone

\* addSegment has been called with start >= end on a contour with segments
C20_EmptyRangeGiven ==
    /\ contourCall.op = "addSegment" /\ contourCall.noop
    /\ standalone.segments # << >>

\* ------------------------------------------------------------------------
\* The initial tree and its first packing
\* ------------------------------------------------------------------------
Area(name) == modules[name].w * modules[name].h

\* C21: constructInitialTree builds a left-skewed chain (no node has a right
\* child, each successor is the left child of its predecessor) that holds
\* the Hierarchy nodes in the order their groups were added, followed by the
\* Module nodes of the modules outside every group in area-descending order.
C21_InitialChainByArea ==
    last.op = "constructInitialTree" =>
        LET chain == LeftChain(Cur, root)
            k == Len(groups)
        IN /\ Len(chain) = k + Cardinality(FreeModules(Cur))
           /\ \A i \in 1..Len(chain) : right[chain[i]] = Nil
           /\ \A i \in 2..Len(chain) : parent[chain[i]] = chain[i - 1]
           /\ \A i \in 1..k : chain[i] = groups[i]
           /\ \A i \in (k + 1)..Len(chain) : chain[i] \in FreeModules(Cur)
           /\ \A i \in (k + 1)..Len(chain), j \in (k + 1)..Len(chain) :
                 i < j => Area(chain[i]) >= Area(chain[j])

\* sum of the widths of the first k modules of a chain
RECURSIVE WidthSum(_, _)
WidthSum(chain, k) ==
    IF k = 0 THEN 0 ELSE WidthSum(chain, k - 1) + modules[chain[k]].w

\* pack() has packed from scratch, as it does right after
\* constructInitialTree, a tree built for a design without groups
PackedWithoutGroups == last.op = "pack" /\ last.ok /\ last.full /\ groups = << >>

\* C22: for a design without symmetry groups, constructInitialTree followed
\* by pack() places the modules of the chain side by side along the x-axis:
\* every module has y = 0, each module's x is the sum of the widths of its
\* predecessors in the chain, and totalArea is the sum of the widths times
\* the largest height.
C22_ChainPackedSideBySide ==
    PackedWithoutGroups =>
        LET chain == LeftChain(Cur, root) IN
        /\ SeqRange(chain) = DOMAIN modules
        /\ \A i \in 1..Len(chain) :
              /\ modules[chain[i]].y = 0
              /\ modules[chain[i]].x = WidthSum(chain, i - 1)
        /\ totalArea = WidthSum(chain, Len(chain))
                        * SetMax({modules[n].h : n \in DOMAIN modules})

\* two modules of different widths and heights have been packed side by side
C22_TwoModulesPacked ==
    /\ PackedWithoutGroups
    /\ modules["m1"].w # modules["m2"].w
    /\ modules["m1"].h # modules["m2"].h
    /\ modules["m2"].x = modules["m1"].w

\* ------------------------------------------------------------------------
\* The link surgery of swapNodes and moveNode
\* ------------------------------------------------------------------------
\* the links the last recorded call found
Before == last.before

\* c is a direct child of p in the links L
ChildOf(L, c, p) == L.left[p] = c \/ L.right[p] = c

\* swapNodes has returned true; a and b are the nodes it was given
Swapped(a, b) ==
    /\ last.op = "swapNodes" /\ last.ok /\ ~hung
    /\ "args" \in DOMAIN last
    /\ last.args = << a, b >>

\* n stands where o stood before the call: under o's former parent in o's
\* former slot, or as the root when o had no parent
TakesPlaceOf(n, o) ==
    LET P == Before.parent[o] IN
    IF P = Nil THEN parent[n] = Nil /\ (Before.root = o => root = n)
    ELSE /\ parent[n] = P
         /\ IF Before.left[P] = o THEN left[P] = n ELSE right[P] = n

\* lower, a child of upper before the call, has taken upper's place, and
\* upper is its child in the slot lower occupied under upper
RolesExchanged(upper, lower) ==
    /\ TakesPlaceOf(lower, upper)
    /\ parent[upper] = lower
    /\ IF Before.left[upper] = lower THEN left[lower] = upper ELSE right[lower] = upper

\* C23: swapNodes(a, b) where b is a direct child of a (or a of b) exchanges
\* the parent-child roles: the former child takes the former parent's slot
\* under the old parent (or is the root), and the former parent is the child
\* of the former child in the same slot (left/right) that the former child
\* occupied before.
C23_SwapWithChildExchangesRoles ==
    \A a \in DOMAIN modules, b \in DOMAIN modules :
        (Swapped(a, b) /\ a # b) =>
            /\ ChildOf(Before, b, a) => RolesExchanged(a, b)
            /\ (ChildOf(Before, a, b) /\ ~ChildOf(Before, b, a)) => RolesExchanged(b, a)

\* n has the children o had before the call, and they point back to n
HasChildrenOf(n, o) ==
    /\ left[n] = Before.left[o]
    /\ right[n] = Before.right[o]
    /\ left[n] # Nil => parent[left[n]] = n
    /\ right[n] # Nil => parent[right[n]] = n

\* swapNodes was given two nodes neither of which is a child of the other
SwappedApart(a, b) ==
    Swapped(a, b) /\ ~ChildOf(Before, b, a) /\ ~ChildOf(Before, a, b)

\* C24: swapNodes(a, b) for two nodes that are not in a parent-child relation
\* exchanges their positions: afterwards a has b's former parent, slot and
\* children and b has a's, and the root is b if a was the root (a if b was
\* the root); when a is the root and b a leaf, root == b.
C24_SwapExchangesPositions ==
    \A a \in DOMAIN modules, b \in DOMAIN modules :
        SwappedApart(a, b) =>
            /\ TakesPlaceOf(a, b) /\ HasChildrenOf(a, b)
            /\ TakesPlaceOf(b, a) /\ HasChildrenOf(b, a)
            /\ Before.root = a => root = b
            /\ Before.root = b => root = a

\* the root and a leaf below one of its grandchildren have been swapped
C24_RootSwappedWithLeaf ==
    \E a \in DOMAIN modules, b \in DOMAIN modules :
        /\ SwappedApart(a, b) /\ a # b
        /\ Before.root = a /\ root = b
        /\ Before.left[b] = Nil /\ Before.right[b] = Nil
        /\ left[a] = Nil /\ right[a] = Nil

\* moveNode(n, p, asLeft) has returned true, p is not n and was not in the
\* subtree of n
Moved(n, p, asLeft) ==
    /\ last.op = "moveNode" /\ last.ok /\ ~hung
    /\ "args" \in DOMAIN last
    /\ last.args = << n, p, asLeft >>
    /\ p # n /\ p \notin Subtree(Before, n)

\* the node E that was in the slot of p given to n
Occupant(n, p, asLeft) ==
    LET E == IF asLeft THEN Before.left[p] ELSE Before.right[p]
    IN IF E = n THEN Nil ELSE E

\* E hangs where moveNode puts the displaced child of the new parent
Displaced(E, n, asLeft) ==
    IF Before.left[n] = Nil THEN left[n] = E /\ parent[E] = n
    ELSE IF Before.right[n] = Nil THEN right[n] = E /\ parent[E] = n
    ELSE IF asLeft
    THEN LET c == LeftEnd(Before, Before.left[n]) IN left[c] = E /\ parent[E] = c
    ELSE LET c == RightEnd(Before, Before.right[n]) IN right[c] = E /\ parent[E] = c

\* n is the child of p in the slot asked for, and the displaced child is in
\* the subtree of n
Attached(n, p, asLeft) ==
    /\ parent[n] = p
    /\ IF asLeft THEN left[p] = n ELSE right[p] = n
    /\ Occupant(n, p, asLeft) # Nil => Displaced(Occupant(n, p, asLeft), n, asLeft)

\* the statement of C25 as the specification has it: after moveNode, n's old
\* parent no longer references n
C25_OldParentForgetsNode ==
    \A n \in DOMAIN modules, p \in DOMAIN modules, asLeft \in BOOLEAN :
        Moved(n, p, asLeft) =>
            /\ Attached(n, p, asLeft)
            /\ Before.parent[n] # Nil =>
                  left[Before.parent[n]] # n /\ right[Before.parent[n]] # n

\* C25: after a successful moveNode(n, p, asLeftChild) where p is not n and
\* not a descendant of n, n is the left (resp. right) child of p with
\* n.parent = p; n's old parent references n only if it is p, and then only
\* in the slot asked for; the former occupant E of that slot is in n's
\* subtree: in n's free left slot, else in n's free right slot, else at the
\* end of n's leftmost chain (left insertion) or rightmost chain (right
\* insertion), with E.parent set accordingly.
C25_MoveNodeAttaches ==
    \A n \in DOMAIN modules, p \in DOMAIN modules, asLeft \in BOOLEAN :
        Moved(n, p, asLeft) =>
            /\ Attached(n, p, asLeft)
            /\ LET O == Before.parent[n] IN
               O # Nil =>
                  /\ left[O] = n => (O = p /\ asLeft)
                  /\ right[O] = n => (O = p /\ ~asLeft)

\* a node with two children has been moved into an occupied slot, and the
\* displaced child hangs at the end of the node's left or right chain
C25_DisplacedToChainEnd ==
    \E n \in DOMAIN modules, p \in DOMAIN modules, asLeft \in BOOLEAN :
        /\ Moved(n, p, asLeft)
        /\ Occupant(n, p, asLeft) # Nil
        /\ Before.left[n] # Nil /\ Before.right[n] # Nil
        /\ Before.parent[n] # p

\* ------------------------------------------------------------------------
\* rotateModule on a module outside every group
\* ------------------------------------------------------------------------
\* the trees rotateModule(name) can leave, its closing repack included
RotatedTrees(T, name) ==
    LET o == rotateModule(T, name) IN
    {IF o.repack THEN repackAffectedSubtrees(o.T, order) ELSE o.T :
        order \in RepackOrders(o.T)}

\* module name of tree U has the sides of module m, exchanged
SidesExchanged(U, name, m) ==
    U.modules[name].w = m.h /\ U.modules[name].h = m.w

\* C26: rotateModule(name) on a module that is in no symmetry group swaps
\* its width and height; two consecutive calls restore the original width
\* and height, and the module's area is the same in every one of the states.
C26_RotateTwiceRestores ==
    ~hung =>
    \A name \in FreeModules(Cur) :
        /\ rotateModule(Cur, name).ok
        /\ \A T1 \in RotatedTrees(Cur, name) :
              /\ SidesExchanged(T1, name, modules[name])
              /\ T1.modules[name].w * T1.modules[name].h = Area(name)
              /\ ~T1.hung =>
                    \A T2 \in RotatedTrees(T1, name) :
                        /\ T2.modules[name].w = modules[name].w
                        /\ T2.modules[name].h = modules[name].h
                        /\ T2.modules[name].w * T2.modules[name].h = Area(name)

\* rotateModule has just turned the free module m1, whose sides differ
C26_FreeModuleRotated ==
    /\ last.op = "rotateModule" /\ last.ok
    /\ "m1" \in FreeModules(Cur)
    /\ "m1" \in modifiedSubtrees
    /\ modules["m1"].w # modules["m1"].h

\* ------------------------------------------------------------------------
\* clone()
\* ------------------------------------------------------------------------
\* C27: the tree returned by clone() is independent of the original: no
\* perturbation and no pack() on the clone changes the original's module
\* coordinates and dimensions, tree links, symmetry groups, contours,
\* isPacked or totalArea; the clone has the same module names and the same
\* symmetry groups as the original.
C27_CloneIsIndependent ==
    [][/\ (copy.made /\ copy'.made) => UNCHANGED tree
       /\ copy'.made =>
             /\ DOMAIN copy'.tree.modules = DOMAIN modules'
             /\ copy'.tree.groups = groups']_vars

\* the clone of a packed tree has been perturbed and packed, and its
\* placement is no longer the one of the original
C27_CloneMovedAway ==
    /\ copy.made /\ copy.packed /\ isPacked
    /\ copy.tree.modules # modules
    /\ copy.tree.left # left \/ copy.tree.right # right

\* ------------------------------------------------------------------------
\* The exit code of main() and the timeout flag
\* ------------------------------------------------------------------------
\* C28: main returns exit code 1 whenever parsing, solving or writing fails
\* and 0 only when all three succeed; a solve() that returns false or throws
\* never leads to exit code 0.
C28_ExitCodeReportsFailure ==
    pc \in {"returned", "exited"} =>
        (exitCode = 0 <=> /\ results.parse = "true"
                          /\ results.solve = "true"
                          /\ results.write = "true")

\* C29: the watchdog thread and the main thread share only the atomic flag
\* timeoutOccurred: the only write of the watchdog is setting the flag from
\* false to true, nothing resets it (hasTimedOut() is monotone), the main
\* thread never writes it, and checkTimeout() raises exactly when it is set.
C29_FlagSetOnceByWatchdog ==
    [][/\ timeoutOccurred => timeoutOccurred'
       /\ timeoutOccurred' # timeoutOccurred =>
             /\ watchdogThread = "running" /\ watchdogThread' = "exited"
             /\ UNCHANGED << pc, exitCode, solveSuccess, results, probe >>
       /\ (watchdogThread # "none" /\ watchdogThread' # watchdogThread /\ now' = now) =>
             UNCHANGED << pc, exitCode, solveSuccess, results, probe >>
       /\ (probe' # probe /\ probe'.op = "checkTimeout") =>
             (probe'.result <=> timeoutOccurred)
       /\ (probe' # probe /\ probe'.op = "hasTimedOut") =>
             (probe'.result <=> timeoutOccurred)]_vars

\* the watchdog has set the flag while the annealer ran, and the next
\* checkTimeout raised
C29_CheckTimeoutRaised ==
    /\ timeoutOccurred
    /\ probe.op = "checkTimeout" /\ probe.result
    /\ results.solve = "throws"

\* ------------------------------------------------------------------------
\* pack() and the nodes of the tree
\* ------------------------------------------------------------------------
\* the Module and Hierarchy nodes reachable from the root
NamedInTree == InTree(Cur) \cap NamedNodes

\* C30: pack() never removes a Module or Hierarchy node from the tree: the
\* set of Module and Hierarchy nodes reachable from the root is the same
\* before and after pack(), in particular when the right child of a
\* Hierarchy node is a Module or Hierarchy node at the time the contour
\* nodes are regenerated.
C30_PackKeepsNodes ==
    [][(last'.op = "pack" /\ steps' = steps + 1 /\ ~hung')
          => NamedInTree' = NamedInTree]_vars

\* ------------------------------------------------------------------------
\* swapNodes and the nodes of the tree
\* ------------------------------------------------------------------------
\* the nodes reachable from the root in the links the last call found
ReachableBefore == Subtree(Before, Before.root)

\* C31: swapNodes(a, b) preserves the set of nodes reachable from root for
\* every pair of registered nodes, also when one is the direct child of the
\* other and the child already has a right subtree: no subtree is
\* overwritten or dropped.
C31_SwapKeepsReachable ==
    \A a \in DOMAIN modules, b \in DOMAIN modules :
        Swapped(a, b) => InTree(Cur) = ReachableBefore

\* ------------------------------------------------------------------------
\* moveNode on the root
\* ------------------------------------------------------------------------
\* the nodes below m by child links
Descendants(T, m) ==
    LET below == {T.left[m], T.right[m]} \ {Nil} IN ReachFrom(T, below, below)

\* no node reachable from the root is below itself
Acyclic(T) == \A m \in InTree(T) : m \notin Descendants(T, m)

\* moveNode was called on n, the root at that time
MovedRoot(n) ==
    /\ last.op = "moveNode"
    /\ "args" \in DOMAIN last
    /\ last.args[1] = n
    /\ Before.root = n /\ Before.parent[n] = Nil

\* the child of the old root n that moveNode makes the root
Promoted(n) ==
    IF Before.left[n] # Nil THEN Before.left[n] ELSE Before.right[n]

\* C32: moveNode(n, p, asLeftChild) with n the current root promotes n's
\* left child (else its right child, else null) to root, terminates, and
\* leaves a well-formed tree: root.parent is null, the child links reachable
\* from root are acyclic, and n is not an ancestor of the new root.
C32_MoveRootLeavesTree ==
    \A n \in DOMAIN modules :
        MovedRoot(n) =>
            /\ ~hung
            /\ root = Promoted(n)
            /\ root # Nil => parent[root] = Nil
            /\ Acyclic(Cur)
            /\ root # Nil => n \notin Ancestors(Cur, root)

\* ------------------------------------------------------------------------
\* getArea() on a packed tree
\* ------------------------------------------------------------------------
\* C33: in every state where isPacked is true, getArea() equals the
\* bounding-box area (max x+w) * (max y+h) of the tree's current module
\* coordinates; this holds after each perturbation's incremental repack and
\* for a tree freshly returned by clone().
C33_PackedAreaIsBoundingBox ==
    /\ (isPacked /\ ~hung) => totalArea = BoundingArea(modules)
    /\ (copy.made /\ copy.tree.isPacked /\ ~copy.tree.hung)
          => copy.tree.totalArea = BoundingArea(copy.tree.modules)

\* ------------------------------------------------------------------------
\* The placement rule of packSubtree, node by node
\* ------------------------------------------------------------------------
\* The rule is replayed on a skyline kept as one height per unit column, so
\* that "the contour over [x, x+w) is set to y + h" is taken literally.
Columns(mods) ==
    0 .. (2 * Cardinality(DOMAIN mods)
            * SetMax({mods[n].w + mods[n].h : n \in DOMAIN mods}))

\* the skyline of contour c, column by column
ColumnsOf(c, mods) == [i \in Columns(mods) |-> getHeight(c, i, i + 1)]

\* the highest column of [x, x + w)
Highest(cells, x, w) == SetMax({cells[i] : i \in x .. (x + w - 1)})

\* the columns of [x, x + w) set to top
Raised(cells, x, w, top) ==
    [i \in DOMAIN cells |-> IF x <= i /\ i < x + w THEN top ELSE cells[i]]

\* x of a node hanging under p in the given slot, R the placement so far
RuleX(T, R, p, isLeft) ==
    IF p = Nil THEN 0
    ELSE IF isLeft
    THEN CASE getType(p) = "MODULE" -> R.mods[p].x + R.mods[p].w
           [] getType(p) = "HIERARCHY" -> R.asf[p].symmetryAxisPosition
           [] getType(p) = "CONTOUR" -> T.contour[p].x2
    ELSE CASE getType(p) = "MODULE" -> R.mods[p].x
           [] getType(p) = "HIERARCHY" -> 0
           [] getType(p) = "CONTOUR" -> T.contour[p].x1

\* Module node N put at (x, y)
RuleModuleAt(R, N, x, y) ==
    [R EXCEPT !.mods[N].x = x, !.mods[N].y = y,
              !.cells = Raised(@, x, R.mods[N].w, y + R.mods[N].h)]

RuleModule(R, N, x) == RuleModuleAt(R, N, x, Highest(R.cells, x, R.mods[N].w))

\* the island of Hierarchy node N, packed in its own coordinates with lower
\* left corner (minX, minY), width bw and height bh, put at (x, y)
RuleIslandAt(R, members, minX, minY, bw, bh, x, y) ==
    [R EXCEPT !.mods = [n \in DOMAIN R.mods |->
                           IF n \in members
                           THEN [R.mods[n] EXCEPT !.x = @ + (x - minX), !.y = @ + (y - minY)]
                           ELSE R.mods[n]],
              !.cells = Raised(@, x, bw, y + bh)]

RuleIslandBox(R, members, minX, minY, bw, bh, x) ==
    RuleIslandAt(R, members, minX, minY, bw, bh, x, Highest(R.cells, x, bw))

RuleIslandBound(R, members, x) ==
    RuleIslandBox(R, members,
                  SetMin({R.mods[n].x : n \in members}),
                  SetMin({R.mods[n].y : n \in members}),
                  SetMax({R.mods[n].x + R.mods[n].w : n \in members})
                     - SetMin({R.mods[n].x : n \in members}),
                  SetMax({R.mods[n].y + R.mods[n].h : n \in members})
                     - SetMin({R.mods[n].y : n \in members}),
                  x)

RuleIslandPacked(R, N, r) == [R EXCEPT !.mods = r.mods, !.asf[N] = r.asf]

RuleIsland(R, N, x) ==
    RuleIslandBound(RuleIslandPacked(R, N, ASFPack(symmetryGroups[GroupOf(N)],
                                                   R.asf[N], R.mods)),
                    GroupMembers(symmetryGroups[GroupOf(N)]), x)

\* node N, reached from p through its left or right link, placed by the rule
RuleNode(T, R, p, isLeft, N) ==
    CASE getType(N) = "MODULE" -> RuleModule(R, N, RuleX(T, R, p, isLeft))
      [] getType(N) = "HIERARCHY" -> RuleIsland(R, N, RuleX(T, R, p, isLeft))
      [] getType(N) = "CONTOUR" -> R

\* N, then its left subtree, then its right subtree
RECURSIVE RuleSubtree(_, _, _, _, _)
RuleRight(T, R, N) == RuleSubtree(T, R, N, FALSE, T.right[N])
RuleLeft(T, R, N) == RuleRight(T, RuleSubtree(T, R, N, TRUE, T.left[N]), N)
RuleSubtree(T, R, p, isLeft, N) ==
    IF N = Nil THEN R ELSE RuleLeft(T, RuleNode(T, R, p, isLeft, N), N)

\* the subtrees of order one after the other
RECURSIVE RuleEach(_, _, _, _)
RuleEach(T, R, order, i) ==
    IF i > Len(order) THEN R
    ELSE RuleEach(T, RuleSubtree(T, R, T.parent[order[i]], isLeftChild(T, order[i]),
                                 order[i]),
                  order, i + 1)

\* the placement the rule gives from the skyline cells
RuleStart(T, cells) == [mods |-> T.modules, asf |-> T.asfTree, cells |-> cells]

\* the modules and the horizontal contour are the ones of placement R
PlacedAs(R, mods, hc) == mods = R.mods /\ ColumnsOf(hc, mods) = R.cells

\* C34: during packing every Module or Hierarchy node N is placed at x given
\* by its parent's kind and N's slot (left child: m.x + m.width for a Module
\* parent, the parent's symmetryAxisPosition for a Hierarchy parent, c.x2 for
\* a Contour parent; right child: m.x, 0, c.x1; root: 0) and at
\* y = horizontalContour.getHeight(x, x + w) on the contour as it is at that
\* moment, after which the horizontal contour over [x, x+w) is y + h.
C34_PackedByRule ==
    [][(last'.op = "pack" /\ last'.ok /\ steps' = steps + 1 /\ ~copy'.made /\ ~hung')
         => IF last'.full
            THEN PlacedAs(RuleSubtree(Cur, RuleStart(Cur, [i \in Columns(modules) |-> 0]),
                                      Nil, FALSE, root),
                          modules', horizontalContour')
            ELSE \E order \in RepackOrders(Cur) :
                    PlacedAs(RuleEach(Cur, RuleStart(Cur, ColumnsOf(horizontalContour, modules)),
                                      order, 1),
                             modules', horizontalContour')]_vars

\* a full pack has placed a node below a Contour node, one below a Module
\* node and the island
C34_PackedBelowEachKind ==
    /\ last.op = "pack" /\ last.ok /\ last.full /\ ~hung
    /\ \E n \in InTree(Cur) \cap DOMAIN nodeMap :
          parent[n] # Nil /\ getType(parent[n]) = "CONTOUR"
    /\ \E n \in InTree(Cur) \cap DOMAIN nodeMap :
          parent[n] # Nil /\ getType(parent[n]) = "MODULE"
    /\ \E n \in InTree(Cur) \cap DOMAIN nodeMap :
          parent[n] # Nil /\ getType(parent[n]) = "HIERARCHY"

\* ------------------------------------------------------------------------
\* The subtrees an incremental repack packs
\* ------------------------------------------------------------------------
\* the perturbation that the step being taken has recorded, applied to the
\* tree it found: the tree as it is when repackAffectedSubtrees is entered
Entered(T, op, args) ==
    IF op = "moveNode" THEN moveNode(T, args[1], args[2], args[3]).T
    ELSE swapNodes(T, args[1], args[2]).T

\* every registered node is reachable from the root
Connected(T) == {T.nodeMap[k] : k \in DOMAIN T.nodeMap} \subseteq InTree(T)

\* the marked nodes of T none of whose ancestors is marked, ancestors taken
\* along the child links from the root
MaximalMarked(T) ==
    {n \in T.modifiedSubtrees :
        \A m \in T.modifiedSubtrees \ {n} : n \notin Descendants(T, m)}

\* on tree T the repack packs exactly the subtree of the root, once
RepacksRootOnly(T, mods, hc) ==
    /\ rootsToRepack(T) = {T.root}
    /\ mods = packSubtree(T, T.root).modules
    /\ hc = packSubtree(T, T.root).horizontalContour

\* the non-null children of n
ChildSet(T, n) == {T.left[n], T.right[n]} \ {Nil}

\* every parent pointer names a node that has the node as a child
ParentsAgree(T) ==
    \A n \in DOMAIN T.parent : T.parent[n] # Nil => n \in ChildSet(T, T.parent[n])

\* the nodes chosen are the maximal marked nodes, and every order the sort
\* may leave is deepest first
SelectsMaximalMarked(T) ==
    /\ rootsToRepack(T) = MaximalMarked(T)
    /\ \A order \in RepackOrders(T) :
          \A i, j \in 1..Len(order) : i < j => Depth(T, order[i]) >= Depth(T, order[j])

\* on the tree T that repackAffectedSubtrees finds, leaving mods and hc
RepackSelects(T, mods, hc) ==
    /\ (ParentsAgree(T) \/ Connected(T)) => SelectsMaximalMarked(T)
    /\ Connected(T) => RepacksRootOnly(T, mods, hc)

DanglingOf(T, h) ==
    IF T.right[h] = Nil THEN {}
    ELSE {T.right[c] : c \in SeqRange(ExistingContourNodes(T, << T.right[h] >>, << >>))}
         \ {Nil}

\* d hangs below Contour node c: it is the right child of c or is on the
\* left chain that starts at the right child of c
HangsBelow(T, d, c) ==
    getType(c) = "CONTOUR" /\ d \in SeqRange(LeftChain(T, T.right[c]))

\* a from-scratch pack() is being made
Regenerating ==
    /\ last'.op = "pack" /\ last'.ok /\ last'.full
    /\ steps' = steps + 1 /\ ~copy'.made /\ ~hung'

\* C36: when contour nodes are regenerated, every subtree that was the right
\* child of an old Contour node of a Hierarchy node is reachable from root
\* afterwards, attached to a Contour node of that Hierarchy node's new chain
\* (as its right child if free, otherwise at the end of the left chain of
\* that right child), and the re-attachment creates no cycle.
C36_DanglingReattached ==
    [][Regenerating =>
          \A h \in DOMAIN symmetryGroupNodes :
              \A d \in DanglingOf(Cur, h) :
                  /\ d \in InTree(Cur')
                  /\ \E c \in SeqRange(LeftChain(Cur', right'[h])) : HangsBelow(Cur', d, c)
                  /\ Acyclic(Cur')]_vars

\* ------------------------------------------------------------------------
\* Consistency of the links
\* ------------------------------------------------------------------------
\* the links of the nodes reachable from the root are consistent
WellLinked(T) ==
    /\ T.root # Nil => T.parent[T.root] = Nil
    /\ \A n \in InTree(T) :
          /\ \A c \in ChildSet(T, n) : T.parent[c] = n
          /\ T.left[n] # Nil => T.left[n] # T.right[n]
          /\ \A m \in InTree(T) \ {n} : ChildSet(T, n) \cap ChildSet(T, m) = {}
    /\ Acyclic(T)

\* the last call is one after which the links are stated to be consistent
LinksSettled ==
    /\ ~hung
    /\ \/ steps = 0 /\ last.op \in {"constructInitialTree", "pack"}
       \/ steps > 0 /\ last.op = "pack" /\ last.ok
       \/ /\ steps > 0 /\ last.op = "swapNodes" /\ last.ok
       \/ /\ steps > 0 /\ last.op = "moveNode" /\ last.ok
          /\ last.args[2] \notin Subtree(Before, last.args[1])

\* C37: after construction and after every successful moveNode (with
\* newParent outside the moved node's subtree), swapNodes and pack(), the
\* links are consistent for every node reachable from root: root.parent is
\* null, each non-null child c of a node n has c.parent == n, no node is the
\* child of two nodes or both children of one node, and the structure is
\* acyclic.
C37_LinksConsistent == LinksSettled => WellLinked(Cur)

\* the watchdog thread leaves its loop in this step
WatchdogExits == watchdogThread # "exited" /\ watchdogThread' = "exited"

\* the destructor of the TimeoutManager whose watchdog was started returns
JoinCompletes == pc # "exited" /\ pc' = "exited" /\ watchdogThread # "none"

\* C38: once startWatchdog() has been called, the watchdog thread exits only
\* by setting timeoutOccurred itself, when the budget of timeoutSeconds has
\* elapsed; no step of the main thread stops it earlier, so the join of the
\* TimeoutManager destructor (and with it the end of main after a successful
\* solve and write) completes only after the budget has elapsed.
C38_JoinWaitsForBudget ==
    [][/\ WatchdogExits =>
             /\ ~timeoutOccurred /\ timeoutOccurred'
             /\ now >= timeoutSeconds
       /\ JoinCompletes =>
             /\ watchdogThread = "exited" /\ timeoutOccurred
             /\ now >= timeoutSeconds]_vars

\* main has returned 0 after a successful solve and write, and the join of
\* the destructor has completed
C38_JoinedAfterSuccess ==
    /\ pc = "exited" /\ exitCode = 0
    /\ results.solve = "true" /\ results.write = "true"
    /\ watchdogThread = "exited"

\* ------------------------------------------------------------------------
\* The solution PlacementSolver::solve() reports
\* ------------------------------------------------------------------------
\* PlacementSolver::getSolutionModules: the map loadProblem stored; its
\* Module objects are the ones handed to the tree of createInitialSolution
getSolutionModules == modules

\* PlacementSolver::getSolutionArea after solve() has adopted the tree the
\* annealer returned: totalArea = hbTree->getArea()
getSolutionArea == copy.tree.totalArea

\* solve() on the packed tree of createInitialSolution, the annealer
\* returning a clone: hbTree = result; hbTree->pack()
AdoptsClone == isPacked /\ ~hung /\ copy.made /\ RepackCopy

\* C39: after solve() has returned true, the coordinates in
\* getSolutionModules() are those of the tree adopted as the result, so that
\* getSolutionArea() equals the bounding-box area of the modules returned by
\* getSolutionModules(), also when the annealer returns a tree obtained by
\* clone() rather than the tree it was given.
C39_SolutionIsAdoptedTree ==
    [][AdoptsClone =>
          /\ getSolutionModules' = copy'.tree.modules
          /\ getSolutionArea' = BoundingArea(getSolutionModules')]_vars

====
